---- MODULE Spec2Model ----
(***************************************************************************)
(* A model of polytool: the ToolRegistry, Tool.execute, the Agent.run      *)
(* control loop, the sandboxes and the execute_code tool.                  *)
(*                                                                         *)
(* Four specifications share one set of variables:                         *)
(*   SpecRegistry     register / remove / clear / set_executor / get /     *)
(*                    execute                                              *)
(*   SpecAgent        one Agent.run, from seeding to its return or raise   *)
(*   SpecSandbox      RestrictedSandbox.execute calls on one event loop    *)
(*   SpecExecuteCode  one execute_code invocation, on either sandbox       *)
(* Each leaves the variables it does not use at their initial values.      *)
(***************************************************************************)
EXTENDS Integers, Sequences, FiniteSets, TLC

VARIABLES
    \* ---- ToolRegistry (tools/registry.py) ----
    tools,            \* ToolRegistry._tools: insertion-ordered, as a sequence of Tools
    lastOp,           \* the last registry operation: its arguments, outcome and pre-state
    registered,       \* history: per name, the id of the Tool registered under it (0: none)
    invocations,      \* every executor invocation so far: [executor, kwargs]
    bound,            \* history: per Tool object, the executors set_executor gave it
                      \* after it was built, in order
    \* ---- Agent.run (agent/agent.py) ----
    max_iterations,   \* Agent.max_iterations
    conversation,     \* the local list `conversation`
    pc,               \* position of run: new, loop, awaiting_model, dispatch, executing, returned, raised
    iteration,        \* iterations of `for _ in range(self.max_iterations)` started
    response,         \* the local `response`: the assistant message being handled
    call_idx,         \* position of the loop `for tool_call in response.tool_calls`
    pending,          \* the registry.execute calls in flight, in the order they were started
    total_usage,      \* the local Usage accumulator
    tool_calls_made,  \* the local counter
    ptc_used,         \* the local flag
    output,           \* AgentResult.output once run has returned
    raised,           \* the class of the exception run raised, once it has raised
    model_requests,   \* number of provider.generate calls issued
    seeded,           \* history: length of the conversation once seeded (system, prior, user)
    finished,         \* history: every call that ended: its result, where its response
                      \* went and where run went on
    usage_log,        \* history: the Usage each provider.generate call returned
    \* ---- RestrictedSandbox.execute (sandbox/restricted.py) ----
    sys_stdout,       \* the object sys.stdout names: 0 the process's own stream, e the
                      \* stdout_capture of execute call e
    sys_stderr,       \* likewise for sys.stderr
    out_buf,          \* what each stdout stream holds (0: the process's own)
    err_buf,          \* what each stderr stream holds
    sb,               \* per execute call: its position, locals, result and history
    current,          \* the call whose code holds the event loop's thread (0: none)
    now,              \* the clock, in ticks
    json_attrs,       \* the attributes set on the `json` module object, which every
                      \* namespace shares
    \* ---- ExecuteCodeTool.execute and E2BSandbox (codegen/executor.py, sandbox/e2b.py) ----
    xc,               \* one execute_code invocation: its position, locals and outcome
    contexts          \* the remote instances provisioned so far: open, and times closed

agentVars == <<max_iterations, conversation, pc, iteration, response, call_idx, pending,
               total_usage, tool_calls_made, ptc_used, output, raised, model_requests,
               seeded, finished, usage_log>>
registryVars == <<tools, lastOp, registered, invocations, bound>>
sandboxVars == <<sys_stdout, sys_stderr, out_buf, err_buf, sb, current, now, json_attrs>>
executeCodeVars == <<xc, contexts>>
vars == <<registryVars, agentVars, sandboxVars, executeCodeVars>>

None == "<None>"

----------------------------------------------------------------------------
(* Text helpers *)

RECURSIVE Join(_, _)
\* sep.join(parts) for a sequence of strings
Join(parts, sep) ==
    IF parts = <<>> THEN ""
    ELSE IF Len(parts) = 1 THEN parts[1]
    ELSE parts[1] \o sep \o Join(Tail(parts), sep)

----------------------------------------------------------------------------
(* core/types.py: Tool, and the values an executor produces *)

\* A Tool object: `id` is the object's identity, `executor` its _executor.
MkTool(id, name, executor) == [id |-> id, name |-> name, executor |-> executor]

\* A plain value, with the text str() gives for it.
Val(type, repr) == [type |-> type, repr |-> repr]

\* What calling an async executor returns: an object with __await__.
Awaitable(v) == [type |-> "coroutine", repr |-> "<coroutine object>", inner |-> v]

\* An exception: `base` marks a BaseException that is not an Exception
\* (asyncio.CancelledError, SystemExit, KeyboardInterrupt).
Exc(cls, msg, base) == [cls |-> cls, msg |-> msg, base |-> base]

Return(v) == [kind |-> "return", value |-> v]
Raise(e) == [kind |-> "raise", exc |-> e]

\* Keyword arguments are a set of <<key, value>> pairs with distinct keys.
Keys(kwargs) == {p[1] : p \in kwargs}

\* Tool.set_executor(self, executor)
set_executor(tool, executor) == [tool EXCEPT !.executor = executor]

\* Tool.execute(self, **kwargs): `outcome` is what the executor does when called.
ToolExecute(tool, kwargs, outcome) ==
    IF "self" \in Keys(kwargs)
    THEN [invoked |-> <<>>,
          result |-> Raise(Exc("TypeError",
              "Tool.execute() got multiple values for argument 'self'", FALSE))]
    ELSE IF tool.executor = None
    THEN [invoked |-> <<>>,
          result |-> Raise(Exc("ValueError",
              "Tool '" \o tool.name \o "' has no executor", FALSE))]
    ELSE [invoked |-> <<[executor |-> tool.executor, kwargs |-> kwargs]>>,
          result |-> IF outcome.kind = "return" /\ outcome.value.type = "coroutine"
                     THEN Return(outcome.value.inner)
                     ELSE outcome]

----------------------------------------------------------------------------
(* tools/registry.py: ToolRegistry *)

\* list(self._tools.keys())
get_names(ts) == [i \in 1..Len(ts) |-> ts[i].name]

\* name in self._tools
has(ts, name) == \E i \in 1..Len(ts) : ts[i].name = name

\* tools/decorator.py get_tool_from_func: whether the function carries a Tool
\* (hasattr(func, "tool") and isinstance(func.tool, Tool)); func.tool is the Tool.
get_tool_from_func(func) == func.kind = "decorated"

\* ToolRegistry.register, lines 36-46: the Tool of a Tool or of a decorated
\* function; any other input is refused.
RegisterInput(input) ==
    IF input.kind = "tool" THEN [ok |-> TRUE, tool |-> input.tool]
    ELSE IF input.kind \in {"decorated", "plain"}
    THEN IF get_tool_from_func(input)
         THEN [ok |-> TRUE, tool |-> input.tool]
         ELSE [ok |-> FALSE,
               exc |-> Exc("ToolError",
                   "Function " \o input.fname \o " is not decorated with @tool", FALSE)]
    ELSE [ok |-> FALSE,
          exc |-> Exc("ToolError", "Cannot register " \o input.fname, FALSE)]

\* register with the duplicate-name check left out: the assignment
\* self._tools[tool.name] = tool replaces the value of an existing key in place.
RegistryRegisterOverwrite(ts, input) ==
    LET r == RegisterInput(input) IN
    IF ~r.ok THEN [ok |-> FALSE, tools |-> ts, exc |-> r.exc]
    ELSE [ok |-> TRUE,
          tools |-> IF has(ts, r.tool.name)
                    THEN [i \in 1..Len(ts) |->
                             IF ts[i].name = r.tool.name THEN r.tool ELSE ts[i]]
                    ELSE Append(ts, r.tool),
          ret |-> r.tool]

\* ToolRegistry.register(tool_or_func)
RegistryRegister(ts, input) ==
    LET r == RegisterInput(input) IN
    IF ~r.ok THEN [ok |-> FALSE, tools |-> ts, exc |-> r.exc]
    ELSE IF has(ts, r.tool.name)
    THEN [ok |-> FALSE, tools |-> ts,
          exc |-> Exc("ToolError",
                      "Tool '" \o r.tool.name \o "' already registered", FALSE)]
    ELSE [ok |-> TRUE, tools |-> Append(ts, r.tool), ret |-> r.tool]

\* ToolRegistry.get(name)
RegistryGet(ts, name) ==
    IF ~has(ts, name)
    THEN [ok |-> FALSE,
          exc |-> Exc("ToolError",
                      "Tool '" \o name \o "' not found. Available: "
                          \o Join(get_names(ts), ", "), FALSE)]
    ELSE [ok |-> TRUE, tool |-> ts[CHOOSE i \in 1..Len(ts) : ts[i].name = name]]

\* ToolRegistry.remove(name)
RegistryRemove(ts, name) == SelectSeq(ts, LAMBDA t : t.name # name)

\* ToolRegistry.execute(self, name, **kwargs): `self` and `name` are parameters
\* of execute itself, so a keyword argument of either name cannot be bound.
RegistryExecute(ts, name, kwargs, outcome) ==
    IF "name" \in Keys(kwargs) \/ "self" \in Keys(kwargs)
    THEN [invoked |-> <<>>,
          result |-> Raise(Exc("TypeError",
              "ToolRegistry.execute() got multiple values for argument '"
                  \o (IF "self" \in Keys(kwargs) THEN "self" ELSE "name") \o "'", FALSE))]
    ELSE LET g == RegistryGet(ts, name) IN
         IF ~g.ok THEN [invoked |-> <<>>, result |-> Raise(g.exc)]
         ELSE ToolExecute(g.tool, kwargs, outcome)

----------------------------------------------------------------------------
(* The registry specification: any sequence of registry operations *)

\* The Tool objects a caller holds. Two distinct objects share the name "search";
\* "add" was built without an executor.
ToolObjects ==
    { MkTool(1, "search", "search_v1"), MkTool(2, "search", "search_v2"),
      MkTool(3, "greet", "greet_fn"), MkTool(4, "add", None) }

ToolNames == {"search", "greet", "add", "missing"}

RegisterInputs ==
    { [kind |-> "tool", tool |-> t, fname |-> t.name] : t \in ToolObjects }
    \cup { [kind |-> "decorated", tool |-> MkTool(3, "greet", "greet_fn"), fname |-> "greet"],
           [kind |-> "plain", tool |-> None, fname |-> "helper"],
           [kind |-> "other", tool |-> None, fname |-> "<class 'int'>"] }

KwargsSet == { {}, {<<"query", "tla">>}, {<<"name", "Bob">>}, {<<"self", "x">>} }

\* What a user-supplied executor may do when called: return a value, return an
\* awaitable that resolves to a value, or raise.
ExecOutcomes ==
    { Return(Val("str", "sunny")),
      Return(Awaitable(Val("int", "42"))),
      Raise(Exc("RuntimeError", "boom", FALSE)) }

\* The identities of the caller's Tool objects
ObjectIds == {t.id : t \in ToolObjects}

\* The Tool objects the caller calls set_executor on later: one built with an
\* executor ("search") and the one built without ("add")
ReboundIds == {t.id : t \in {MkTool(1, "search", "search_v1"), MkTool(4, "add", None)}}

\* The executors a caller may hand to set_executor later on
LaterExecutors == {"patched_fn"}

\* How many set_executor calls one Tool object receives after it was built
MaxRebinds == 1

\* The Tool object `t` as it is now: as it was built, then given each executor
\* of bound[t.id] in turn.
Held(t) ==
    IF bound[t.id] = <<>> THEN t
    ELSE set_executor(t, bound[t.id][Len(bound[t.id])])

\* A register argument, carrying its Tool object as it is now
HeldInput(input) ==
    IF input.kind \in {"tool", "decorated"} THEN [input EXCEPT !.tool = Held(@)]
    ELSE input

NoOp == [op |-> "none"]

InitRegistryIdle ==
    /\ tools = <<>>
    /\ lastOp = NoOp
    /\ registered = [n \in ToolNames |-> 0]
    /\ invocations = <<>>
    /\ bound = [i \in ObjectIds |-> <<>>]

Register(input) ==
    LET r == RegistryRegister(tools, HeldInput(input)) IN
    /\ tools' = r.tools
    /\ lastOp' = [op |-> "register", input |-> HeldInput(input), pre |-> tools, ok |-> r.ok,
                  res |-> r]
    /\ registered' = IF r.ok THEN [registered EXCEPT ![r.ret.name] = r.ret.id]
                     ELSE registered
    /\ UNCHANGED <<invocations, bound>>

Remove(name) ==
    /\ tools' = RegistryRemove(tools, name)
    /\ lastOp' = [op |-> "remove", name |-> name, pre |-> tools, ok |-> TRUE]
    /\ registered' = [registered EXCEPT ![name] = 0]
    /\ UNCHANGED <<invocations, bound>>

Clear ==
    /\ tools' = <<>>
    /\ lastOp' = [op |-> "clear", pre |-> tools, ok |-> TRUE]
    /\ registered' = [n \in ToolNames |-> 0]
    /\ UNCHANGED <<invocations, bound>>

\* tool.set_executor(executor) on a Tool object the caller holds; the registry
\* holds the same object, so a registered Tool changes with it.
SetExecutor(id, executor) ==
    /\ Len(bound[id]) < MaxRebinds
    /\ bound' = [bound EXCEPT ![id] = Append(@, executor)]
    /\ tools' = [i \in 1..Len(tools) |->
                    IF tools[i].id = id THEN set_executor(tools[i], executor)
                    ELSE tools[i]]
    /\ lastOp' = [op |-> "set_executor", id |-> id, executor |-> executor,
                  pre |-> tools, ok |-> TRUE]
    /\ UNCHANGED <<registered, invocations>>

Get(name) ==
    LET g == RegistryGet(tools, name) IN
    /\ lastOp' = [op |-> "get", name |-> name, pre |-> tools, ok |-> g.ok, res |-> g]
    /\ UNCHANGED <<tools, registered, invocations, bound>>

Execute(name, kwargs, outcome) ==
    LET r == RegistryExecute(tools, name, kwargs, outcome) IN
    /\ lastOp' = [op |-> "execute", name |-> name, kwargs |-> kwargs, pre |-> tools,
                  ok |-> r.result.kind = "return", outcome |-> outcome,
                  invoked |-> r.invoked, result |-> r.result]
    /\ UNCHANGED <<tools, registered, invocations, bound>>

----------------------------------------------------------------------------
(* Text: captured output is a sequence of one-character strings *)

Whitespace == {" ", "\n", "\t"}

RECURSIVE LStrip(_)
LStrip(cs) == IF cs # <<>> /\ Head(cs) \in Whitespace THEN LStrip(Tail(cs)) ELSE cs

RECURSIVE RStrip(_)
RStrip(cs) ==
    IF cs # <<>> /\ cs[Len(cs)] \in Whitespace THEN RStrip(SubSeq(cs, 1, Len(cs) - 1)) ELSE cs

\* str.strip()
Strip(cs) == RStrip(LStrip(cs))

\* the str the characters make up
Text(cs) == Join(cs, "")

----------------------------------------------------------------------------
(* core/types.py ExecutionResult, codegen/executor.py ExecuteCodeTool.execute *)

NoneVal == Val("NoneType", "None")

ExecutionResult(success, stdout, stderr, return_value, error) ==
    [success |-> success, stdout |-> stdout, stderr |-> stderr,
     return_value |-> return_value, error |-> error]

\* lines 87-92 without the trimming and the fallbacks
ExecuteCodeOutcomeRaw(result) == Return(Val("str", Text(result.stdout)))

\* ExecuteCodeTool.execute, lines 77-92: what the executor of execute_code does
\* with the sandbox's result.
ExecuteCodeOutcome(result) ==
    IF ~result.success
    THEN LET error_msg == IF result.error = None \/ result.error = ""
                          THEN "Unknown error" ELSE result.error
             with_stderr == IF result.stderr # <<>>
                            THEN error_msg \o "\nStderr: " \o Text(result.stderr)
                            ELSE error_msg
         IN Raise(Exc("SandboxError", "Code execution failed: " \o with_stderr, FALSE))
    ELSE LET stripped == Text(Strip(result.stdout))
             out == IF stripped = "" /\ result.return_value.type # "NoneType"
                    THEN result.return_value.repr ELSE stripped
         IN Return(Val("str", IF out = "" THEN "(no output)" ELSE out))

----------------------------------------------------------------------------
(* core/types.py Message, and the inputs of one Agent.run *)

Message(role, content, tool_calls, tool_call_id, name) ==
    [role |-> role, content |-> content, tool_calls |-> tool_calls,
     tool_call_id |-> tool_call_id, name |-> name]

\* One requested call, in the wire shape of providers/litellm.py lines 153-161.
ToolCall(id, name, arguments) ==
    [id |-> id, type |-> "function",
     function |-> [name |-> name, arguments |-> arguments]]

\* json.loads on the argument strings a model may send: a JSON object, a JSON
\* value that is not an object, or text that is not JSON.
json_loads(text) ==
    CASE text = "{\"city\": \"tokyo\"}" ->
            [ok |-> TRUE, type |-> "dict", items |-> {<<"city", "tokyo">>}]
      [] text = "{\"code\": \"print(6*7)\"}" ->
            [ok |-> TRUE, type |-> "dict", items |-> {<<"code", "print(6*7)">>}]
      [] text = "{}" -> [ok |-> TRUE, type |-> "dict", items |-> {}]
      [] text = "[1]" -> [ok |-> TRUE, type |-> "list", items |-> {}]
      [] OTHER ->
            [ok |-> FALSE, type |-> "JSONDecodeError",
             exc |-> Exc("JSONDecodeError",
                         "Expecting property name enclosed in double quotes", FALSE)]

ArgsWeather == "{\"city\": \"tokyo\"}"
ArgsCode == "{\"code\": \"print(6*7)\"}"

\* The assistant messages the model backend may answer with.
Responses ==
    { Message("assistant", "It is sunny.", <<>>, None, None),
      Message("assistant", None, <<>>, None, None),
      Message("assistant", None, <<ToolCall("call_a", "get_weather", ArgsWeather)>>, None, None),
      Message("assistant", "thinking", <<ToolCall("call_a", "get_weather", ArgsWeather),
                                         ToolCall("call_b", "execute_code", ArgsCode)>>, None, None),
      Message("assistant", None, <<ToolCall("call_a", "get_weather", ArgsWeather),
                                   ToolCall("call_a", "lookup", "{}")>>, None, None),
      Message("assistant", None, <<ToolCall("call_b", "get_weather", "[1]"),
                                   ToolCall("call_a", "get_weather", "{\"city\": ")>>, None, None),
      Message("assistant", None, <<ToolCall("call_c", "convert", "{}")>>, None, None) }

\* The usage a response carries (zero when the backend reports none).
Usages ==
    { [input_tokens |-> 0, output_tokens |-> 0, total_tokens |-> 0],
      [input_tokens |-> 3, output_tokens |-> 2, total_tokens |-> 5] }

\* Caller-supplied prior messages (the `messages` argument of run).
PriorHistories ==
    { <<>>,
      << Message("system", "Be brief.", <<>>, None, None) >>,
      << Message("user", "hello", <<>>, None, None),
         Message("system", "Be brief.", <<>>, None, None) >>,
      << Message("user", "weather?", <<>>, None, None),
         Message("assistant", None, <<ToolCall("call_p", "get_weather", ArgsWeather)>>, None, None),
         Message("tool", "rainy", <<>>, "call_p", "get_weather") >>,
      << Message("tool", "stale", <<>>, "call_z", "get_weather") >> }

\* The Agent's registry: the caller's tools, one of them ("convert") built
\* without an executor, then execute_code (agent.py lines 50-63).
AgentTools ==
    << MkTool(10, "get_weather", "weather_fn"),
       MkTool(13, "convert", None),
       MkTool(11, "execute_code", "ExecuteCodeTool.execute") >>

\* The sandbox results an execute_code call may see.
SampleResults ==
    { ExecutionResult(TRUE, <<"4", "2", "\n">>, <<>>, NoneVal, None),
      ExecutionResult(TRUE, <<>>, <<>>, NoneVal, None),
      ExecutionResult(FALSE, <<>>, <<>>, NoneVal, "ZeroDivisionError: division by zero") }

\* What the executor bound to a tool may do when the Agent's call reaches it.
OutcomesOf(executor) ==
    IF executor = "ExecuteCodeTool.execute"
    THEN { ExecuteCodeOutcome(r) : r \in SampleResults }
    ELSE ExecOutcomes \cup { Raise(Exc("CancelledError", "", TRUE)) }

----------------------------------------------------------------------------
(* agent/agent.py: Agent.run *)

MaxIterations == 2

\* core/types.py Tool.get_signature (the parameter list is not modelled)
get_signature(tool) == "async def " \o tool.name \o "(...) -> Any"

\* codegen/prompts.py build_system_prompt
build_system_prompt(ts, base_prompt) ==
    LET others == SelectSeq(ts, LAMBDA t : t.name # "execute_code")
        sigs == [i \in 1..Len(others) |-> get_signature(others[i])]
    IN Join(<< IF base_prompt = None
               THEN "You are a helpful assistant with access to tools."
               ELSE base_prompt,
               "## Available Tools" >> \o sigs, "\n")

\* run, lines 67-74: the conversation before the first model request
Seed(prior, prompt, ts, system_prompt) ==
    LET conv == IF prior = <<>> \/ prior[1].role # "system"
                THEN << Message("system", build_system_prompt(ts, system_prompt),
                                <<>>, None, None) >> \o prior
                ELSE prior
    IN Append(conv, Message("user", prompt, <<>>, None, None))

\* run, line 90: `not response.tool_calls`
NoToolCalls(resp) == resp.tool_calls = <<>>

\* line 92 with the content dropped
FinalOutputDropped(resp) == ""

\* run, line 92: `response.content or ""`
FinalOutput(resp) == IF resp.content = None THEN "" ELSE resp.content

\* line 99 visiting the calls last to first
DispatchOrderReversed(n) == [k \in 1..n |-> n + 1 - k]

\* run, line 99: the order in which `for tool_call in response.tool_calls` visits
\* the n requested calls
DispatchOrder(n) == [k \in 1..n |-> k]

\* line 115 narrowed to `except ToolError`
CaughtToolErrorOnly(exc) == exc.cls = "ToolError"

\* run, line 115: `except Exception` catches every exception but a BaseException
Caught(exc) == ~exc.base

\* run, lines 114 and 116: the text of the tool-role response
ResultStr(result) ==
    IF result.kind = "return" THEN result.value.repr ELSE "Error: " \o result.exc.msg

\* lines 118-123 with tool_call_id taken from the function name
ToolResponseNameAsId(tool_call, result_str) ==
    Message("tool", result_str, <<>>, tool_call.function.name, tool_call.function.name)

\* run, lines 118-123: the tool-role response to one call
ToolResponse(tool_call, result_str) ==
    Message("tool", result_str, <<>>, tool_call.id, tool_call.function.name)

\* `response` before the first model answer
NoResponse == Message("none", None, <<>>, None, None)

ZeroUsage ==
    [input_tokens |-> 0, output_tokens |-> 0, total_tokens |-> 0,
     tool_calls |-> 0, ptc_executions |-> 0]

InitAgentIdle ==
    /\ max_iterations = 0
    /\ conversation = <<>>
    /\ pc = "idle"
    /\ iteration = 0
    /\ response = NoResponse
    /\ call_idx = 0
    /\ pending = <<>>
    /\ total_usage = ZeroUsage
    /\ tool_calls_made = 0
    /\ ptc_used = FALSE
    /\ output = None
    /\ raised = None
    /\ model_requests = 0
    /\ seeded = 0
    /\ finished = <<>>
    /\ usage_log = <<>>

\* run is called: lines 65-78
Run(prior, prompt) ==
    /\ pc = "new"
    /\ conversation' = Seed(prior, prompt, tools, None)
    /\ seeded' = Len(conversation')
    /\ total_usage' = ZeroUsage
    /\ tool_calls_made' = 0
    /\ ptc_used' = FALSE
    /\ pc' = "loop"
    /\ UNCHANGED <<usage_log, max_iterations, iteration, response, call_idx, pending, output, raised,
                   model_requests, finished, registryVars, sandboxVars, executeCodeVars>>

\* lines 80-82: the loop goes round once more and asks the model
GenerateCall ==
    /\ pc = "loop"
    /\ iteration < max_iterations
    /\ iteration' = iteration + 1
    /\ model_requests' = model_requests + 1
    /\ pc' = "awaiting_model"
    /\ UNCHANGED <<usage_log, max_iterations, conversation, response, call_idx, pending, total_usage,
                   tool_calls_made, ptc_used, output, raised, seeded, finished,
                   registryVars, sandboxVars, executeCodeVars>>

\* lines 125-131: the loop is exhausted
MaxIterationsReturn ==
    /\ pc = "loop"
    /\ iteration >= max_iterations
    /\ output' = "[Max iterations reached]"
    /\ pc' = "returned"
    /\ UNCHANGED <<usage_log, max_iterations, conversation, iteration, response, call_idx, pending,
                   total_usage, tool_calls_made, ptc_used, raised, model_requests,
                   seeded, finished, registryVars, sandboxVars, executeCodeVars>>

\* lines 82-97: the model answers
GenerateReturn(resp, usage) ==
    /\ pc = "awaiting_model"
    /\ total_usage' = [total_usage EXCEPT
                          !.input_tokens = @ + usage.input_tokens,
                          !.output_tokens = @ + usage.output_tokens,
                          !.total_tokens = @ + usage.total_tokens]
    /\ usage_log' = Append(usage_log, usage)
    /\ conversation' = Append(conversation, resp)
    /\ response' = resp
    /\ IF NoToolCalls(resp)
       THEN /\ output' = FinalOutput(resp)
            /\ pc' = "returned"
            /\ call_idx' = call_idx
       ELSE /\ output' = output
            /\ pc' = "dispatch"
            /\ call_idx' = 1
    /\ UNCHANGED <<max_iterations, iteration, pending, tool_calls_made, ptc_used, raised,
                   model_requests, seeded, finished, registryVars, sandboxVars, executeCodeVars>>

\* providers/litellm.py lines 91-96: the backend fails, generate raises ProviderError
GenerateRaise ==
    /\ pc = "awaiting_model"
    /\ raised' = "ProviderError"
    /\ pc' = "raised"
    /\ UNCHANGED <<usage_log, max_iterations, conversation, iteration, response, call_idx, pending,
                   total_usage, tool_calls_made, ptc_used, output, model_requests,
                   seeded, finished, registryVars, sandboxVars, executeCodeVars>>

\* The accounting with every call counted as a direct tool call
CountCallAsToolCall(usage, func_name) == [usage EXCEPT !.tool_calls = @ + 1]

\* lines 106-110: a call of execute_code counts as a code execution, any other
\* as a tool call
CountCall(usage, func_name) ==
    IF func_name = "execute_code" THEN [usage EXCEPT !.ptc_executions = @ + 1]
    ELSE [usage EXCEPT !.tool_calls = @ + 1]

\* lines 99-113: the next requested call is decoded, counted and started
BeginToolCall ==
    /\ pc = "dispatch"
    /\ LET n == Len(response.tool_calls)
           idx == DispatchOrder(n)[call_idx]
           tool_call == response.tool_calls[idx]
           func_name == tool_call.function.name
           func_args == json_loads(tool_call.function.arguments)
       IN /\ tool_calls_made' = tool_calls_made + 1
          /\ IF ~func_args.ok
             THEN /\ raised' = func_args.exc.cls
                  /\ pc' = "raised"
                  /\ UNCHANGED <<pending, ptc_used, total_usage, invocations>>
             ELSE /\ ptc_used' = (ptc_used \/ func_name = "execute_code")
                  /\ total_usage' = CountCall(total_usage, func_name)
                  /\ pending' = Append(pending,
                         [idx |-> idx, tool_call |-> tool_call,
                          mapping |-> func_args.type = "dict", kwargs |-> func_args.items])
                  /\ invocations' = invocations \o
                         (IF func_args.type = "dict"
                          THEN RegistryExecute(tools, func_name, func_args.items,
                                               Return(NoneVal)).invoked
                          ELSE <<>>)
                  /\ pc' = "executing"
                  /\ raised' = raised
    /\ UNCHANGED <<usage_log, max_iterations, conversation, iteration, response, call_idx, output,
                   model_requests, seeded, finished, tools, lastOp, registered, bound, sandboxVars,
                   executeCodeVars>>

\* The result of the call in flight: `**func_args` needs a mapping, then
\* registry.execute runs.
CallResult(p, outcome) ==
    IF ~p.mapping
    THEN Raise(Exc("TypeError",
             "ToolRegistry.execute() argument after ** must be a mapping, not list", FALSE))
    ELSE RegistryExecute(tools, p.tool_call.function.name, p.kwargs, outcome).result

\* The executor a call in flight has reached, if any.
Reached(p) ==
    IF ~p.mapping THEN <<>>
    ELSE RegistryExecute(tools, p.tool_call.function.name, p.kwargs, Return(NoneVal)).invoked

\* lines 113-123: the call in flight ends, and its response is appended
FinishToolCall(outcome) ==
    /\ pc = "executing"
    /\ pending # <<>>
    /\ LET p == pending[1]
           result == CallResult(p, outcome)
           n == Len(response.tool_calls)
       IN /\ outcome \in (IF Reached(p) = <<>> THEN {Return(NoneVal)}
                          ELSE OutcomesOf(Reached(p)[1].executor))
          /\ pending' = Tail(pending)
          /\ IF result.kind = "raise" /\ ~Caught(result.exc)
             THEN /\ raised' = result.exc.cls
                  /\ pc' = "raised"
                  /\ UNCHANGED <<conversation, call_idx>>
             ELSE /\ conversation' = Append(conversation,
                                            ToolResponse(p.tool_call, ResultStr(result)))
                  /\ raised' = raised
                  /\ IF call_idx < n
                     THEN pc' = "dispatch" /\ call_idx' = call_idx + 1
                     ELSE pc' = "loop" /\ call_idx' = call_idx
          /\ finished' = Append(finished,
                 [tool_call |-> p.tool_call, result |-> result,
                  pos |-> Len(conversation) + 1, then |-> pc'])
    /\ UNCHANGED <<usage_log, max_iterations, iteration, response, total_usage, tool_calls_made,
                   ptc_used, output, model_requests, seeded, registryVars, sandboxVars, executeCodeVars>>

----------------------------------------------------------------------------
(* sandbox/restricted.py: RestrictedSandbox.execute on an asyncio event loop *)

\* The execute calls under study.
Execs == {1, 2}

\* The deadline of one execution, in ticks (settings.sandbox_timeout_seconds).
Timeout == 2

\* The ticks a caller may have to wait beyond the deadline.
Overhead == 1

MaxClock == Timeout + Overhead + 1

NoFault == Exc("", "", FALSE)

\* A call expression fn(*args, **kwargs) in sandboxed code.
Call(fn, args, kwargs) == [fn |-> fn, args |-> args, kwargs |-> kwargs]

\* One statement of sandboxed code.
Ins(op, arg, exc) == [op |-> op, arg |-> arg, exc |-> exc]

\* The code blocks a model may send: `valid` is whether ast.parse accepts the
\* text, `body` what the code does when run.
\*   print / eprint  write to sys.stdout / sys.stderr
\*   await           call an injected tool and suspend until it resolves
\*                   (arg "ok": it returns; otherwise it raises exc)
\*   hang            suspend on something that never resolves
\*   spin            loop without ever suspending (while True: pass)
\*   raise           raise exc
\*   return          return arg
\*   call            r = await fn(*args, **kwargs), fn looked up in the namespace
\*   print_r         print(r)
Codes ==
    [ syntax  |-> [valid |-> FALSE, body |-> <<>>],
      hello   |-> [valid |-> TRUE, body |-> << Ins("print", "h", NoFault) >>],
      tool    |-> [valid |-> TRUE,
                   body |-> << Ins("print", "a", NoFault), Ins("await", "ok", NoFault),
                               Ins("print", "b", NoFault) >>],
      div     |-> [valid |-> TRUE,
                   body |-> << Ins("eprint", "w", NoFault),
                               Ins("raise", "",
                                   Exc("ZeroDivisionError", "division by zero", FALSE)) >>],
      toolerr |-> [valid |-> TRUE,
                   body |-> << Ins("await", "raise",
                                   Exc("ValueError", "unknown city", FALSE)) >>],
      late    |-> [valid |-> TRUE,
                   body |-> << Ins("raise", "",
                                   Exc("TimeoutError", "upstream timed out", FALSE)) >>],
      exit    |-> [valid |-> TRUE,
                   body |-> << Ins("print", "x", NoFault),
                               Ins("raise", "", Exc("SystemExit", "1", TRUE)) >>],
      spin    |-> [valid |-> TRUE,
                   body |-> << Ins("print", "s", NoFault), Ins("spin", "", NoFault) >>],
      hang    |-> [valid |-> TRUE,
                   body |-> << Ins("print", "z", NoFault), Ins("hang", "", NoFault) >>],
      ret     |-> [valid |-> TRUE,
                   body |-> << Ins("return", "7", NoFault) >>],
      weather |-> [valid |-> TRUE,
                   body |-> << Ins("call", Call("get_weather", <<"tokyo">>, {}), NoFault),
                               Ins("print_r", "", NoFault) >>],
      weather_kw |-> [valid |-> TRUE,
                   body |-> << Ins("call", Call("get_weather", <<>>, {<<"city", "tokyo">>}),
                                   NoFault),
                               Ins("print_r", "", NoFault) >>],
      memo    |-> [valid |-> TRUE,
                   body |-> << Ins("print_attr", [attr |-> "seen", default |-> "first"],
                                   NoFault),
                               Ins("setattr", [attr |-> "seen", value |-> "again"],
                                   NoFault) >>],
      readfile |-> [valid |-> TRUE,
                   body |-> << Ins("call", Call("open", <<"/etc/hostname">>, {}), NoFault),
                               Ins("print_r", "", NoFault) >>],
      nested  |-> [valid |-> TRUE,
                   body |-> << Ins("call", Call("execute_code", <<>>,
                                                {<<"code", "print(1)">>}), NoFault),
                               Ins("print_r", "", NoFault) >>] ]

CodeNames == DOMAIN Codes

\* The attributes sandboxed code reads and sets on `json`
AttrNames == {"seen"}

\* An attribute that was never set
Unset == "<unset>"

\* Code that never returns: it loops or waits for ever.
NeverReturns(code) == code \in {"spin", "hang"}

NoResult == ExecutionResult(FALSE, <<>>, <<>>, NoneVal, None)

\* One execute call before it is made.
IdleCall ==
    [pc |-> "idle", code |-> "hello", ip |-> 0, old_stdout |-> 0, old_stderr |-> 0,
     started |-> 0, result |-> NoResult, cause |-> "none", escaped |-> NoFault,
     fault |-> NoFault, wrote_out |-> <<>>, wrote_err |-> <<>>,
     exit_stdout |-> 0, exit_stderr |-> 0, returned_at |-> 0,
     injected |-> <<>>, r |-> NoneVal, invoked |-> <<>>,
     ended_before |-> {}, resolved |-> {}]

InitSandboxIdle ==
    /\ sys_stdout = 0
    /\ sys_stderr = 0
    /\ out_buf = [x \in {0} \cup Execs |-> <<>>]
    /\ err_buf = [x \in {0} \cup Execs |-> <<>>]
    /\ sb = [e \in Execs |-> IdleCall]
    /\ current = 0
    /\ now = 0
    /\ json_attrs = [a \in AttrNames |-> Unset]

\* the syntax check reporting nothing
SyntaxErrorUnreported == ExecutionResult(TRUE, <<>>, <<>>, NoneVal, None)

\* lines 57-68: ast.parse(code) raising SyntaxError
SyntaxErrorResult ==
    ExecutionResult(FALSE, <<>>, <<>>, NoneVal, "Syntax error: invalid syntax")

\* lines 98-114: the except clause that handles an exception leaving wait_for.
\* asyncio.TimeoutError is TimeoutError, and its clause comes first.
ExceptClause(exc) ==
    IF exc.cls = "TimeoutError" THEN "timeout"
    ELSE IF ~exc.base THEN "exception"
    ELSE "propagate"

\* lines 90-114: the result execute returns, for a normal return (exc = NoFault)
\* or for an exception leaving wait_for.
ResultOf(stdout, stderr, return_value, exc) ==
    IF exc = NoFault
    THEN ExecutionResult(TRUE, stdout, stderr, return_value, None)
    ELSE IF ExceptClause(exc) = "timeout"
    THEN ExecutionResult(FALSE, stdout, stderr, NoneVal,
                         "Execution timed out after " \o ToString(Timeout) \o "s")
    ELSE ExecutionResult(FALSE, stdout, stderr, NoneVal, exc.cls \o ": " \o exc.msg)

\* lines 138-171: the names _build_namespace binds before the tools
BuiltinNames ==
    { "print", "len", "range", "enumerate", "zip", "map", "filter", "sorted",
      "reversed", "list", "dict", "set", "tuple", "str", "int", "float", "bool",
      "sum", "min", "max", "abs", "round", "any", "all", "isinstance", "hasattr",
      "getattr", "setattr", "json", "asyncio" }

\* lines 136-177: _build_namespace(tools). Each tool is bound under its name to
\* the wrapper of _make_tool_wrapper, after the builtins and so over them.
build_namespace(ts) ==
    [n \in BuiltinNames \cup {ts[i].name : i \in 1..Len(ts)} |->
        IF \E i \in 1..Len(ts) : ts[i].name = n
        THEN [kind |-> "tool",
              tool |-> ts[CHOOSE i \in 1..Len(ts) :
                            /\ ts[i].name = n
                            /\ \A j \in (i+1)..Len(ts) : ts[j].name # n]]
        ELSE [kind |-> "builtin"]]

\* lines 129-130: exec(compile(...), namespace). The namespace has no
\* "__builtins__" key, so exec puts the interpreter's builtins module there; a
\* sample of the names that module adds to those of _build_namespace.
InterpreterBuiltins == {"open", "__import__", "exec", "eval", "compile", "input"}

\* How code run in `ns` resolves a global name: the namespace first, then the
\* builtins module under "__builtins__".
Resolve(ns, name) ==
    IF name \in DOMAIN ns THEN ns[name].kind
    ELSE IF name \in InterpreterBuiltins THEN "builtin"
    ELSE "unbound"

\* What a builtin returns when called with `args`
BuiltinCall(fn, args) ==
    IF fn = "open" THEN Val("TextIOWrapper", "<_io.TextIOWrapper name='" \o args[1] \o "'>")
    ELSE Val("object", "<result of " \o fn \o ">")

\* lines 181-182: calling `async def wrapper(**kwargs)` binds the arguments;
\* positional arguments are rejected before anything is awaited.
WrapperCallError(args) ==
    IF args # <<>>
    THEN Exc("TypeError",
             "RestrictedSandbox._make_tool_wrapper.<locals>.wrapper() takes 0 "
             \o "positional arguments but " \o ToString(Len(args))
             \o (IF Len(args) = 1 THEN " was given" ELSE " were given"), FALSE)
    ELSE NoFault

\* The tools a caller passes to execute.
SandboxTools ==
    << MkTool(20, "get_weather", "weather_fn"), MkTool(21, "add", "add_fn") >>

\* The execute calls that have ended
Ended == {f \in Execs : sb[f].pc \in {"returned", "propagated"}}

\* execute is called, lines 54-88: the syntax check, then the namespace, then
\* the redirection of the process streams, then the code starts to run under
\* wait_for.
SandboxExecuteWith(e, code, ts) ==
    /\ sb[e].pc = "idle"
    /\ current = 0
    /\ IF ~Codes[code].valid
       THEN /\ sb' = [sb EXCEPT ![e] = [@ EXCEPT
                        !.pc = "returned", !.code = code, !.started = now,
                        !.ended_before = Ended,
                        !.result = SyntaxErrorResult, !.cause = "syntax",
                        !.old_stdout = sys_stdout, !.old_stderr = sys_stderr,
                        !.exit_stdout = sys_stdout, !.exit_stderr = sys_stderr,
                        !.returned_at = now]]
            /\ UNCHANGED <<sys_stdout, sys_stderr, out_buf, err_buf, current>>
       ELSE /\ sb' = [sb EXCEPT ![e] = [@ EXCEPT
                        !.pc = "running", !.code = code, !.ip = 1, !.started = now,
                        !.ended_before = Ended,
                        !.injected = ts,
                        !.old_stdout = sys_stdout, !.old_stderr = sys_stderr]]
            /\ out_buf' = [out_buf EXCEPT ![e] = <<>>]
            /\ err_buf' = [err_buf EXCEPT ![e] = <<>>]
            /\ sys_stdout' = e
            /\ sys_stderr' = e
            /\ current' = e
    /\ UNCHANGED <<now, json_attrs>>

SandboxExecute(e, code) == SandboxExecuteWith(e, code, SandboxTools)

\* lines 90-118: wait_for has ended, by a return (exc = NoFault) or an exception;
\* the except clauses build the result and `finally` restores the streams.
\* `fault` is the exception the code or a tool raised, if that is what ended it.
Leave(e, return_value, exc, cause, fault, wrote_out, wrote_err) ==
    /\ sb' = [sb EXCEPT ![e] = [@ EXCEPT
                 !.pc = IF exc # NoFault /\ ExceptClause(exc) = "propagate"
                        THEN "propagated" ELSE "returned",
                 !.result = IF exc # NoFault /\ ExceptClause(exc) = "propagate"
                            THEN NoResult
                            ELSE ResultOf(out_buf[e], err_buf[e], return_value, exc),
                 !.escaped = IF exc # NoFault /\ ExceptClause(exc) = "propagate"
                             THEN exc ELSE NoFault,
                 !.cause = cause, !.fault = fault,
                 !.wrote_out = wrote_out, !.wrote_err = wrote_err,
                 !.exit_stdout = sb[e].old_stdout, !.exit_stderr = sb[e].old_stderr,
                 !.returned_at = now]]
    /\ sys_stdout' = sb[e].old_stdout
    /\ sys_stderr' = sb[e].old_stderr
    /\ current' = 0
    /\ UNCHANGED <<out_buf, err_buf>>

\* lines 120-134: the code runs one statement, holding the thread
CodeStep(e) ==
    /\ current = e
    /\ sb[e].pc = "running"
    /\ LET body == Codes[sb[e].code].body
           ip == sb[e].ip
       IN IF ip > Len(body)
          THEN \* the wrapped function falls through its trailing `pass`
               /\ Leave(e, NoneVal, NoFault, "success", NoFault,
                        sb[e].wrote_out, sb[e].wrote_err)
          ELSE LET ins == body[ip] IN
               CASE ins.op = "print" ->
                      /\ out_buf' = [out_buf EXCEPT ![sys_stdout] = @ \o <<ins.arg, "\n">>]
                      /\ sb' = [sb EXCEPT ![e] = [@ EXCEPT
                                   !.ip = ip + 1,
                                   !.wrote_out = @ \o <<ins.arg, "\n">>]]
                      /\ UNCHANGED <<err_buf, sys_stdout, sys_stderr, current>>
                 [] ins.op = "eprint" ->
                      /\ err_buf' = [err_buf EXCEPT ![sys_stderr] = @ \o <<ins.arg, "\n">>]
                      /\ sb' = [sb EXCEPT ![e] = [@ EXCEPT
                                   !.ip = ip + 1,
                                   !.wrote_err = @ \o <<ins.arg, "\n">>]]
                      /\ UNCHANGED <<out_buf, sys_stdout, sys_stderr, current>>
                 [] ins.op \in {"await", "hang"} ->
                      /\ sb' = [sb EXCEPT ![e] = [@ EXCEPT !.pc = "suspended"]]
                      /\ current' = 0
                      /\ UNCHANGED <<out_buf, err_buf, sys_stdout, sys_stderr>>
                 [] ins.op = "spin" ->
                      UNCHANGED <<sb, out_buf, err_buf, sys_stdout, sys_stderr, current>>
                 [] ins.op = "raise" ->
                      /\ Leave(e, NoneVal, ins.exc, "fault", ins.exc,
                               sb[e].wrote_out, sb[e].wrote_err)
                 [] ins.op = "return" ->
                      /\ Leave(e, Val("int", ins.arg), NoFault, "success", NoFault,
                               sb[e].wrote_out, sb[e].wrote_err)
                 [] ins.op = "call" ->
                      LET ns == build_namespace(sb[e].injected)
                          unbound == Exc("NameError", "name '" \o ins.arg.fn
                                                      \o "' is not defined", FALSE)
                      IN IF Resolve(ns, ins.arg.fn) = "unbound"
                         THEN Leave(e, NoneVal, unbound, "fault", unbound,
                                    sb[e].wrote_out, sb[e].wrote_err)
                         ELSE IF Resolve(ns, ins.arg.fn) = "builtin"
                         THEN \* a builtin is called and returns at once
                              /\ sb' = [sb EXCEPT ![e] = [@ EXCEPT
                                           !.ip = ip + 1,
                                           !.resolved = @ \cup {ins.arg.fn},
                                           !.r = BuiltinCall(ins.arg.fn, ins.arg.args)]]
                              /\ UNCHANGED <<out_buf, err_buf, sys_stdout, sys_stderr,
                                             current>>
                         ELSE IF WrapperCallError(ins.arg.args) # NoFault
                         THEN Leave(e, NoneVal, WrapperCallError(ins.arg.args), "fault",
                                    WrapperCallError(ins.arg.args),
                                    sb[e].wrote_out, sb[e].wrote_err)
                         ELSE /\ sb' = [sb EXCEPT ![e] = [@ EXCEPT
                                           !.pc = "suspended",
                                           !.resolved = @ \cup {ins.arg.fn}]]
                              /\ current' = 0
                              /\ UNCHANGED <<out_buf, err_buf, sys_stdout, sys_stderr>>
                 [] ins.op = "print_attr" ->
                      \* print(getattr(json, attr, default))
                      LET v == IF json_attrs[ins.arg.attr] = Unset THEN ins.arg.default
                               ELSE json_attrs[ins.arg.attr]
                      IN /\ out_buf' = [out_buf EXCEPT ![sys_stdout] = @ \o <<v, "\n">>]
                         /\ sb' = [sb EXCEPT ![e] = [@ EXCEPT
                                      !.ip = ip + 1,
                                      !.resolved = @ \cup {"print", "getattr", "json"},
                                      !.wrote_out = @ \o <<v, "\n">>]]
                         /\ UNCHANGED <<err_buf, sys_stdout, sys_stderr, current>>
                 [] ins.op = "setattr" ->
                      \* setattr(json, attr, value)
                      /\ sb' = [sb EXCEPT ![e] = [@ EXCEPT
                                   !.ip = ip + 1,
                                   !.resolved = @ \cup {"setattr", "json"}]]
                      /\ UNCHANGED <<out_buf, err_buf, sys_stdout, sys_stderr, current>>
                 [] ins.op = "print_r" ->
                      /\ out_buf' = [out_buf EXCEPT
                                        ![sys_stdout] = @ \o <<sb[e].r.repr, "\n">>]
                      /\ sb' = [sb EXCEPT ![e] = [@ EXCEPT
                                   !.ip = ip + 1,
                                   !.wrote_out = @ \o <<sb[e].r.repr, "\n">>]]
                      /\ UNCHANGED <<err_buf, sys_stdout, sys_stderr, current>>
    /\ json_attrs' = LET body == Codes[sb[e].code].body
                         ip == sb[e].ip
                     IN IF ip <= Len(body) /\ body[ip].op = "setattr"
                        THEN [json_attrs EXCEPT ![body[ip].arg.attr] = body[ip].arg.value]
                        ELSE json_attrs
    /\ UNCHANGED now

\* lines 179-185: the awaited tool resolves while the loop is free; the code
\* goes on, or the tool's exception leaves the code
ToolResolves(e) ==
    /\ current = 0
    /\ sb[e].pc = "suspended"
    /\ LET ins == Codes[sb[e].code].body[sb[e].ip] IN
       \/ /\ ins.op = "await"
          /\ IF ins.arg = "ok"
             THEN /\ sb' = [sb EXCEPT ![e] = [@ EXCEPT !.pc = "running", !.ip = @ + 1]]
                  /\ current' = e
                  /\ UNCHANGED <<out_buf, err_buf, sys_stdout, sys_stderr>>
             ELSE /\ Leave(e, NoneVal, ins.exc, "fault", ins.exc,
                           sb[e].wrote_out, sb[e].wrote_err)
       \/ /\ ins.op = "call"
          /\ \E outcome \in ExecOutcomes :
                LET tool == build_namespace(sb[e].injected)[ins.arg.fn].tool
                    done == ToolExecute(tool, ins.arg.kwargs, outcome)
                IN IF done.result.kind = "return"
                   THEN /\ sb' = [sb EXCEPT ![e] = [@ EXCEPT
                                    !.pc = "running", !.ip = @ + 1,
                                    !.r = done.result.value,
                                    !.invoked = @ \o done.invoked]]
                        /\ current' = e
                        /\ UNCHANGED <<out_buf, err_buf, sys_stdout, sys_stderr>>
                   ELSE /\ Leave(e, NoneVal, done.result.exc, "fault", done.result.exc,
                                 sb[e].wrote_out, sb[e].wrote_err)
    /\ UNCHANGED <<now, json_attrs>>

\* The deadline of call e has passed while its code is suspended.
Due(e) == sb[e].pc = "suspended" /\ now >= sb[e].started + Timeout

\* lines 85-88 and 98-105: the loop is free and the deadline has passed:
\* wait_for cancels the suspended code and raises asyncio.TimeoutError
DeadlineExpires(e) ==
    /\ current = 0
    /\ Due(e)
    /\ Leave(e, NoneVal, Exc("TimeoutError", "", FALSE), "deadline", NoFault,
             sb[e].wrote_out, sb[e].wrote_err)
    /\ UNCHANGED <<now, json_attrs>>

\* Time passes: while the loop is free and no timer is due, or while code that
\* never suspends holds the thread.
Tick ==
    /\ now < MaxClock
    /\ \/ current = 0 /\ \A e \in Execs : ~Due(e)
       \/ /\ current # 0
          /\ sb[current].ip <= Len(Codes[sb[current].code].body)
          /\ Codes[sb[current].code].body[sb[current].ip].op = "spin"
    /\ now' = now + 1
    /\ UNCHANGED <<sys_stdout, sys_stderr, out_buf, err_buf, sb, current, json_attrs>>

----------------------------------------------------------------------------
(* sandbox/base.py get_sandbox, sandbox/e2b.py E2BSandbox and                *)
(* codegen/executor.py ExecuteCodeTool.execute                               *)

\* The sandbox_type an ExecuteCodeTool was built with (None: use the settings).
SandboxTypes == {None, "e2b", "restricted", "docker", "bogus"}

\* settings.sandbox_type (core/config.py; "e2b" unless configured)
SettingsSandboxTypes == {"e2b", "restricted", "docker"}

\* get_sandbox(sandbox_type). E2BSandbox() raises SandboxError, not ImportError,
\* when the e2b package is missing, so the ImportError fallback is not taken.
get_sandbox(sandbox_type, settings_type, e2b_available) ==
    LET stype == IF sandbox_type = None THEN settings_type ELSE sandbox_type IN
    IF stype = "e2b"
    THEN IF e2b_available
         THEN [ok |-> TRUE, impl |-> "e2b"]
         ELSE [ok |-> FALSE,
               exc |-> Exc("SandboxError",
                           "E2B not installed. Install with: pip install polytool[e2b]",
                           FALSE)]
    ELSE IF stype = "restricted"
    THEN [ok |-> TRUE, impl |-> "restricted"]
    ELSE IF stype = "docker"
    THEN [ok |-> FALSE,
          exc |-> Exc("NotImplementedError", "Docker sandbox not yet implemented", FALSE)]
    ELSE [ok |-> FALSE,
          exc |-> Exc("ValueError", "Unknown sandbox type: " \o stype, FALSE)]

\* executor.py line 69: the tools handed to the sandbox
ToolsForSandboxUnfiltered(ts) == ts

ToolsForSandbox(ts) == SelectSeq(ts, LAMBDA t : t.name # "execute_code")

\* e2b.py lines 142-171: one placeholder wrapper per tool, by name
generate_tool_wrappers(ts) == [i \in 1..Len(ts) |-> ts[i].name]

\* e2b.py lines 82-86: the code sent to the remote interpreter
E2BFullCode(code, ts) ==
    [wrappers |-> IF ts # <<>> THEN generate_tool_wrappers(ts) ELSE <<>>, code |-> code]

\* What the remote interpreter reports for one run_code: `logs` may be missing,
\* and so may each of its streams; `error` is set when the code failed;
\* `results` are the displayed values.
Lines(present, lines) == [present |-> present, lines |-> lines]
NoError == [present |-> FALSE, name |-> "", value |-> ""]
RemoteError(name, value) == [present |-> TRUE, name |-> name, value |-> value]
Shown(has_text, text, has_data, data) ==
    [has_text |-> has_text, text |-> text, has_data |-> has_data, data |-> data]
Execution(has_logs, out, err, error, results) ==
    [has_logs |-> has_logs, out |-> out, err |-> err, error |-> error, results |-> results]

E2BExecutions ==
    { Execution(TRUE, Lines(TRUE, <<"42">>), Lines(FALSE, <<>>), NoError, <<>>),
      Execution(FALSE, Lines(FALSE, <<>>), Lines(FALSE, <<>>), NoError,
                << Shown(TRUE, "1", FALSE, ""), Shown(TRUE, "7", FALSE, "") >>),
      Execution(TRUE, Lines(TRUE, <<" ">>), Lines(TRUE, <<>>), NoError,
                << Shown(FALSE, "", TRUE, "{'a': 1}") >>),
      Execution(TRUE, Lines(TRUE, <<>>), Lines(TRUE, <<>>), NoError,
                << Shown(TRUE, None, FALSE, "") >>),
      Execution(TRUE, Lines(TRUE, <<"a", "b">>), Lines(TRUE, <<"warn">>),
                RemoteError("ZeroDivisionError", "division by zero"), <<>>) }

\* What sandbox.run_code may do: return an execution, raise, or be interrupted.
RunCodeOutcomes ==
    { Return(x) : x \in E2BExecutions }
    \cup { Raise(Exc("TimeoutException", "execution timed out", FALSE)),
           Raise(Exc("KeyboardInterrupt", "", TRUE)) }

\* repr of the kwargs dict of a call with at most one keyword argument
KwargsRepr(kwargs) ==
    IF kwargs = {} THEN "{}"
    ELSE LET p == CHOOSE q \in kwargs : TRUE IN "{'" \o p[1] \o "': '" \o p[2] \o "'}"

\* e2b.py lines 161-168: what the generated wrapper of tool `name` does when the
\* remote code calls it: it prints the call and returns a fixed text. It holds
\* no call back to the host, so no executor is invoked.
PlaceholderCall(name, kwargs) ==
    [printed |-> "[TOOL CALL] " \o name \o "(" \o KwargsRepr(kwargs) \o ")",
     returned |-> Val("str", "Result of " \o name),
     invoked |-> <<>>]

\* The first statement of `code`, when it calls one of the wrappers of `fc`
\* with keyword arguments only
CallsWrapper(fc) ==
    /\ fc.code \in DOMAIN Codes
    /\ Codes[fc.code].valid
    /\ Codes[fc.code].body # <<>>
    /\ Codes[fc.code].body[1].op = "call"
    /\ Codes[fc.code].body[1].arg.args = <<>>
    /\ \E i \in 1..Len(fc.wrappers) : fc.wrappers[i] = Codes[fc.code].body[1].arg.fn

\* What run_code may do with the code `fc`. Code that calls a wrapper and
\* prints what it returned gives the output of the placeholder; for other code
\* the remote interpreter may report any execution.
RemoteRuns(fc) ==
    IF CallsWrapper(fc)
    THEN LET c == Codes[fc.code].body[1].arg
             w == PlaceholderCall(c.fn, c.kwargs)
         IN { Return(Execution(TRUE, Lines(TRUE, <<w.printed, w.returned.repr>>),
                               Lines(TRUE, <<>>), NoError, <<>>)),
              Raise(Exc("TimeoutException", "execution timed out", FALSE)) }
    ELSE RunCodeOutcomes

\* The host executors a run of `fc` on the remote interpreter invokes
RemoteInvoked(fc) ==
    IF CallsWrapper(fc)
    THEN PlaceholderCall(Codes[fc.code].body[1].arg.fn,
                         Codes[fc.code].body[1].arg.kwargs).invoked
    ELSE <<>>

\* What E2BSandboxBase(api_key=...) may do: provision an instance, or raise.
ProvisionOutcomes ==
    { Return(Val("Sandbox", "instance")),
      Raise(Exc("AuthenticationException", "invalid API key", FALSE)) }

\* "\n".join(line.line for line in lines), as the pieces of the text
RECURSIVE JoinLines(_)
JoinLines(lines) ==
    IF lines = <<>> THEN <<>>
    ELSE IF Len(lines) = 1 THEN << lines[1] >>
    ELSE << lines[1], "\n" >> \o JoinLines(Tail(lines))

\* e2b.py line 109 with the error text left out
E2BErrorTextMissing(error) == ""

\* e2b.py line 109
E2BErrorText(error) == error.name \o ": " \o error.value

\* e2b.py lines 114-121: the last displayed value
E2BReturnValue(results) ==
    IF results = <<>> THEN NoneVal
    ELSE LET last_result == results[Len(results)] IN
         IF last_result.has_text
         THEN IF last_result.text = None THEN NoneVal ELSE Val("str", last_result.text)
         ELSE IF last_result.has_data THEN Val("dict", last_result.data)
         ELSE NoneVal

\* e2b.py lines 89-136: the result execute builds from what run_code did, when
\* that is a return or an Exception
E2BResult(run) ==
    IF run.kind = "raise"
    THEN ExecutionResult(FALSE, <<>>, <<>>, NoneVal, "E2B error: " \o run.exc.msg)
    ELSE LET execution == run.value
             stdout == IF execution.has_logs /\ execution.out.present
                       THEN JoinLines(execution.out.lines) ELSE <<>>
             stderr == IF execution.has_logs /\ execution.err.present
                       THEN JoinLines(execution.err.lines) ELSE <<>>
         IN IF execution.error.present
            THEN ExecutionResult(FALSE, stdout, stderr, NoneVal,
                                 E2BErrorText(execution.error))
            ELSE ExecutionResult(TRUE, stdout, stderr,
                                 E2BReturnValue(execution.results), None)

\* A provisioned remote instance, and sandbox.close() on the i-th one
NewContext == [open |-> TRUE, closes |-> 0]
CloseContext(ctxs, i) == [ctxs EXCEPT ![i] = [open |-> FALSE, closes |-> @.closes + 1]]

\* e2b.py lines 46-50 without the close
E2BAExitLeaks(self_sandbox, ctxs) == [sandbox |-> 0, contexts |-> ctxs]

\* e2b.py lines 46-50: __aexit__
E2BAExit(self_sandbox, ctxs) ==
    IF self_sandbox # 0
    THEN [sandbox |-> 0, contexts |-> CloseContext(ctxs, self_sandbox)]
    ELSE [sandbox |-> self_sandbox, contexts |-> ctxs]

NoOutcome == [kind |-> "none"]
NoRun == [wrappers |-> <<>>, code |-> "none"]

\* One execute_code invocation before it is made.
IdleXc ==
    [pc |-> "idle", mode |-> "none", impl |-> "none", code |-> "hello",
     registry |-> <<>>, injected |-> <<>>, e2b_sandbox |-> 0, ran |-> NoRun,
     has_result |-> FALSE, result |-> NoResult, escaping |-> NoFault,
     outcome |-> NoOutcome, invoked |-> <<>>,
     requested |-> [sandbox_type |-> None, settings_type |-> "restricted",
                    e2b_available |-> TRUE]]

InitExecuteCodeIdle ==
    /\ xc = IdleXc
    /\ contexts = <<>>

\* ExecuteCodeTool.execute is called, lines 58-72: the tool list, then get_sandbox
XcCall(code, sandbox_type, settings_type, e2b_available) ==
    /\ xc.pc = "idle"
    /\ LET got == get_sandbox(sandbox_type, settings_type, e2b_available)
           req == [sandbox_type |-> sandbox_type, settings_type |-> settings_type,
                   e2b_available |-> e2b_available]
       IN
       xc' = IF got.ok
             THEN [xc EXCEPT !.pc = "acquired", !.mode = "execute_code",
                             !.impl = got.impl, !.code = code, !.registry = tools,
                             !.injected = ToolsForSandbox(tools),
                             !.requested = req]
             ELSE [xc EXCEPT !.pc = "raised", !.mode = "execute_code", !.code = code,
                             !.registry = tools,
                             !.injected = ToolsForSandbox(tools),
                             !.requested = req,
                             !.outcome = Raise(got.exc)]
    /\ UNCHANGED <<contexts, registryVars, agentVars, sandboxVars>>

\* `async with sandbox`, E2BSandbox: __aenter__ (lines 41-44) provisions the
\* instance, then execute (lines 69-140) runs the code on it
XcExecuteE2B(provision, run) ==
    /\ xc.pc = "acquired"
    /\ xc.impl = "e2b"
    /\ run \in RemoteRuns(E2BFullCode(xc.code, xc.injected))
    /\ IF provision.kind = "raise"
       THEN /\ xc' = [xc EXCEPT !.pc = "raised", !.outcome = provision]
            /\ UNCHANGED contexts
       ELSE /\ contexts' = Append(contexts, NewContext)
            /\ xc' = [xc EXCEPT
                        !.pc = "executed",
                        !.e2b_sandbox = Len(contexts) + 1,
                        !.ran = E2BFullCode(xc.code, xc.injected),
                        !.invoked = RemoteInvoked(E2BFullCode(xc.code, xc.injected)),
                        !.has_result = ~(run.kind = "raise" /\ run.exc.base),
                        !.result = IF run.kind = "raise" /\ run.exc.base
                                   THEN NoResult ELSE E2BResult(run),
                        !.escaping = IF run.kind = "raise" /\ run.exc.base
                                     THEN run.exc ELSE NoFault]
    /\ UNCHANGED <<registryVars, agentVars, sandboxVars>>

\* `async with sandbox`, RestrictedSandbox: __aenter__ does nothing, then
\* execute is called with the tool list
XcExecuteRestricted ==
    /\ xc.pc = "acquired"
    /\ xc.impl = "restricted"
    /\ SandboxExecuteWith(1, xc.code, xc.injected)
    /\ xc' = [xc EXCEPT !.pc = "executing"]
    /\ UNCHANGED <<contexts, registryVars, agentVars>>

\* The RestrictedSandbox.execute call of this invocation has ended.
XcRestrictedEnded ==
    /\ xc.pc = "executing"
    /\ sb[1].pc \in {"returned", "propagated"}

\* executor.py lines 74-92: sandbox.execute has ended; __aexit__ runs, and the
\* result becomes the text execute returns or the SandboxError it raises
XcExit ==
    /\ \/ xc.pc = "executed"
       \/ XcRestrictedEnded
    /\ LET ended == IF xc.impl = "restricted"
                    THEN [has_result |-> sb[1].pc = "returned",
                          result |-> sb[1].result, escaping |-> sb[1].escaped]
                    ELSE [has_result |-> xc.has_result,
                          result |-> xc.result, escaping |-> xc.escaping]
           exit == IF xc.impl = "e2b"
                   THEN E2BAExit(xc.e2b_sandbox, contexts)
                   ELSE [sandbox |-> 0, contexts |-> contexts]
           out == IF ended.has_result
                  THEN ExecuteCodeOutcome(ended.result) ELSE Raise(ended.escaping)
       IN /\ contexts' = exit.contexts
          /\ xc' = [xc EXCEPT
                      !.pc = IF out.kind = "return" THEN "returned" ELSE "raised",
                      !.e2b_sandbox = exit.sandbox,
                      !.has_result = ended.has_result,
                      !.result = ended.result,
                      !.escaping = ended.escaping,
                      !.outcome = out]
    /\ UNCHANGED <<registryVars, agentVars, sandboxVars>>

\* E2BSandbox.execute called outside `async with`, lines 69-140: it provisions
\* its own instance (own_sandbox) and closes it in `finally`
E2BExecuteDirect(code, ts, provision, run) ==
    /\ xc.pc = "idle"
    /\ run \in RemoteRuns(E2BFullCode(code, ts))
    /\ IF provision.kind = "raise"
       THEN /\ xc' = [xc EXCEPT !.pc = "raised", !.mode = "direct", !.impl = "e2b",
                                !.code = code, !.injected = ts, !.outcome = provision]
            /\ UNCHANGED contexts
       ELSE /\ contexts' = CloseContext(Append(contexts, NewContext), Len(contexts) + 1)
            /\ xc' = [xc EXCEPT
                        !.pc = IF run.kind = "raise" /\ run.exc.base
                               THEN "raised" ELSE "returned",
                        !.mode = "direct", !.impl = "e2b", !.code = code,
                        !.injected = ts,
                        !.ran = E2BFullCode(code, ts),
                        !.invoked = RemoteInvoked(E2BFullCode(code, ts)),
                        !.has_result = ~(run.kind = "raise" /\ run.exc.base),
                        !.result = IF run.kind = "raise" /\ run.exc.base
                                   THEN NoResult ELSE E2BResult(run),
                        !.escaping = IF run.kind = "raise" /\ run.exc.base
                                     THEN run.exc ELSE NoFault,
                        !.outcome = IF run.kind = "raise" /\ run.exc.base
                                    THEN run ELSE [kind |-> "result"]]
    /\ UNCHANGED <<registryVars, agentVars, sandboxVars>>

\* The registries an execute_code invocation may find.
RegistryContents ==
    { AgentTools,
      << MkTool(10, "get_weather", "weather_fn"), MkTool(12, "add", "add_fn"),
         MkTool(11, "execute_code", "ExecuteCodeTool.execute") >>,
      << MkTool(11, "execute_code", "ExecuteCodeTool.execute") >> }

InitAgent ==
    /\ max_iterations \in 0..MaxIterations
    /\ conversation = <<>>
    /\ pc = "new"
    /\ iteration = 0
    /\ response = NoResponse
    /\ call_idx = 0
    /\ pending = <<>>
    /\ total_usage = ZeroUsage
    /\ tool_calls_made = 0
    /\ ptc_used = FALSE
    /\ output = None
    /\ raised = None
    /\ model_requests = 0
    /\ seeded = 0
    /\ finished = <<>>
    /\ usage_log = <<>>
    /\ tools = AgentTools
    /\ lastOp = NoOp
    /\ registered = [n \in ToolNames |-> 0]
    /\ invocations = <<>>
    /\ bound = [i \in ObjectIds |-> <<>>]
    /\ InitSandboxIdle
    /\ InitExecuteCodeIdle

NextAgent ==
    \/ \E prior \in PriorHistories : Run(prior, "What is the weather in Tokyo?")
    \/ GenerateCall
    \/ MaxIterationsReturn
    \/ \E resp \in Responses, usage \in Usages : GenerateReturn(resp, usage)
    \/ GenerateRaise
    \/ BeginToolCall
    \/ \E outcome \in ExecOutcomes \cup { Raise(Exc("CancelledError", "", TRUE)),
                                          Return(NoneVal) }
                      \cup { ExecuteCodeOutcome(r) : r \in SampleResults } :
           FinishToolCall(outcome)

SpecAgent == InitAgent /\ [][NextAgent]_vars

InitRegistry ==
    InitRegistryIdle /\ InitAgentIdle /\ InitSandboxIdle /\ InitExecuteCodeIdle

NextRegistry ==
    \/ \E input \in RegisterInputs : Register(input) /\ UNCHANGED <<agentVars, sandboxVars, executeCodeVars>>
    \/ \E name \in ToolNames : Remove(name) /\ UNCHANGED <<agentVars, sandboxVars, executeCodeVars>>
    \/ Clear /\ UNCHANGED <<agentVars, sandboxVars, executeCodeVars>>
    \/ \E id \in ReboundIds, executor \in LaterExecutors :
           SetExecutor(id, executor) /\ UNCHANGED <<agentVars, sandboxVars, executeCodeVars>>
    \/ \E name \in ToolNames : Get(name) /\ UNCHANGED <<agentVars, sandboxVars, executeCodeVars>>
    \/ \E name \in ToolNames, kwargs \in KwargsSet, outcome \in ExecOutcomes :
           Execute(name, kwargs, outcome) /\ UNCHANGED <<agentVars, sandboxVars, executeCodeVars>>

SpecRegistry == InitRegistry /\ [][NextRegistry]_vars

InitSandbox ==
    InitSandboxIdle /\ InitRegistryIdle /\ InitAgentIdle /\ InitExecuteCodeIdle

NextSandbox ==
    \/ \E e \in Execs, code \in CodeNames :
           SandboxExecute(e, code) /\ UNCHANGED <<registryVars, agentVars, executeCodeVars>>
    \/ \E e \in Execs : CodeStep(e) /\ UNCHANGED <<registryVars, agentVars, executeCodeVars>>
    \/ \E e \in Execs : ToolResolves(e) /\ UNCHANGED <<registryVars, agentVars, executeCodeVars>>
    \/ \E e \in Execs : DeadlineExpires(e) /\ UNCHANGED <<registryVars, agentVars, executeCodeVars>>
    \/ Tick /\ UNCHANGED <<registryVars, agentVars, executeCodeVars>>

SpecSandbox == InitSandbox /\ [][NextSandbox]_vars

\* Every outcome run_code may have, over the codes and tool lists in use
AllRemoteRuns ==
    UNION { RemoteRuns(E2BFullCode(code, ts)) :
                code \in CodeNames,
                ts \in {<<>>, SandboxTools}
                          \cup {ToolsForSandbox(r) : r \in RegistryContents} }

\* One execute_code invocation (or one direct E2BSandbox.execute) on a registry
\* that was filled before it began.
InitExecuteCode ==
    /\ InitExecuteCodeIdle
    /\ InitAgentIdle
    /\ InitSandboxIdle
    /\ tools \in RegistryContents
    /\ lastOp = NoOp
    /\ registered = [n \in ToolNames |-> 0]
    /\ invocations = <<>>
    /\ bound = [i \in ObjectIds |-> <<>>]

NextExecuteCode ==
    \/ \E code \in CodeNames, sandbox_type \in SandboxTypes,
          settings_type \in SettingsSandboxTypes, e2b_available \in BOOLEAN :
           XcCall(code, sandbox_type, settings_type, e2b_available)
    \/ \E provision \in ProvisionOutcomes, run \in AllRemoteRuns :
           XcExecuteE2B(provision, run)
    \/ XcExecuteRestricted
    \/ xc.pc = "executing" /\ CodeStep(1)
          /\ UNCHANGED <<registryVars, agentVars, executeCodeVars>>
    \/ xc.pc = "executing" /\ ToolResolves(1)
          /\ UNCHANGED <<registryVars, agentVars, executeCodeVars>>
    \/ xc.pc = "executing" /\ DeadlineExpires(1)
          /\ UNCHANGED <<registryVars, agentVars, executeCodeVars>>
    \/ xc.pc = "executing" /\ Tick
          /\ UNCHANGED <<registryVars, agentVars, executeCodeVars>>
    \/ XcExit
    \/ \E code \in {"hello", "weather_kw"}, ts \in {<<>>, SandboxTools},
          provision \in ProvisionOutcomes, run \in AllRemoteRuns :
           E2BExecuteDirect(code, ts, provision, run)

SpecExecuteCode == InitExecuteCode /\ [][NextExecuteCode]_vars

----------------------------------------------------------------------------
(* Properties of Agent.run (SpecAgent) *)

\* The messages run itself appended after seeding.
OwnIndices == (seeded + 1)..Len(conversation)

EveryResponseRequestedTools ==
    \A i \in OwnIndices :
        conversation[i].role = "assistant" => conversation[i].tool_calls # <<>>

\* Exceptions that mean a model request or a tool execution did not return.
DidNotReturn == {"ProviderError", "CancelledError"}

\* C1: run makes at most max_iterations model requests; and when every model
\* response requests a tool call (and every model request and tool execution
\* returns), run ends by returning, not raising, the sentinel
\* "[Max iterations reached]" after exactly max_iterations model requests.
C1_RunBoundedBySentinel ==
    /\ model_requests <= max_iterations
    /\ (pc \in {"returned", "raised"} /\ EveryResponseRequestedTools
            /\ raised \notin DidNotReturn)
        => /\ pc = "returned"
           /\ output = "[Max iterations reached]"
           /\ model_requests = max_iterations

\* C2: at the first model response without tool calls run has returned, with
\* that response's text as output (empty when it has none); that response is the
\* last message, no model request or tool call followed it; a model that answers
\* at once ends the run after one iteration with no tool call made.
C2_StopsAtFinalAnswer ==
    \A i \in OwnIndices :
        (conversation[i].role = "assistant" /\ conversation[i].tool_calls = <<>>)
        => /\ pc = "returned"
           /\ i = Len(conversation)
           /\ output = (IF conversation[i].content = None THEN ""
                        ELSE conversation[i].content)
           /\ pending = <<>>
           /\ model_requests =
                  Cardinality({j \in OwnIndices : conversation[j].role = "assistant"})
           /\ tool_calls_made =
                  Cardinality({j \in OwnIndices : conversation[j].role = "tool"})
           /\ (i = seeded + 1 =>
                  iteration = 1 /\ model_requests = 1 /\ tool_calls_made = 0
                      /\ invocations = <<>>)

C2_Witness ==
    /\ pc = "returned"
    /\ iteration = 1
    /\ tool_calls_made = 0
    /\ output = "It is sunny."

\* C3: a call whose execution threw an error (an Exception: unknown tool,
\* executor fault, failed code execution, arguments that are no mapping) got a
\* tool-role response "Error: <message>" carrying the call's id and tool name,
\* and run went on with the next call or the next model request; run never
\* raises such an error.
C3_ErrorsBecomeToolMessages ==
    /\ \A k \in 1..Len(finished) :
          LET f == finished[k] IN
          (f.result.kind = "raise" /\ ~f.result.exc.base)
          => /\ f.pos <= Len(conversation)
             /\ conversation[f.pos] =
                    Message("tool", "Error: " \o f.result.exc.msg, <<>>,
                            f.tool_call.id, f.tool_call.function.name)
             /\ f.then \in {"dispatch", "loop"}
    /\ pc = "raised" => raised \in {"ProviderError", "CancelledError", "JSONDecodeError"}

C3_Witness ==
    /\ \E k \in 1..Len(finished) :
          /\ finished[k].result.kind = "raise"
          /\ finished[k].result.exc.cls = "RuntimeError"
          /\ finished[k].then = "dispatch"
    /\ \E k \in 1..Len(finished) :
          /\ finished[k].result.kind = "raise"
          /\ finished[k].result.exc.cls = "ToolError"
          /\ finished[k].then = "loop"
    /\ pc = "awaiting_model"

\* Position of the assistant message being handled.
ResponsePos ==
    CHOOSE a \in 0..Len(conversation) :
        /\ a # 0 => conversation[a].role = "assistant"
        /\ \A j \in (a + 1)..Len(conversation) : conversation[j].role # "assistant"
        /\ a = 0 => \A j \in 1..Len(conversation) : conversation[j].role # "assistant"

\* C4: the calls c1..cn of one assistant message are dispatched one at a time
\* in order: at most one is in flight; when c(k) is in flight the responses to
\* c1..c(k-1), and no others, follow the assistant message in that order; and a
\* model request is in flight only when all n responses have been appended.
C4_SequentialDispatch ==
    (pc \in {"dispatch", "executing", "loop", "awaiting_model"} /\ response.role = "assistant")
    => LET a == ResponsePos
           calls == conversation[a].tool_calls
           done == Len(conversation) - a
       IN /\ conversation[a] = response
          /\ Len(pending) <= 1
          /\ (pc = "executing") = (Len(pending) = 1)
          /\ done <= Len(calls)
          /\ \A j \in 1..done :
                /\ conversation[a + j].role = "tool"
                /\ conversation[a + j].tool_call_id = calls[j].id
                /\ conversation[a + j].name = calls[j].function.name
          /\ pc = "executing" => pending[1].idx = done + 1
          /\ pc = "dispatch" => done < Len(calls)
          /\ pc \in {"loop", "awaiting_model"} => done = Len(calls)

C4_Witness ==
    /\ pc = "executing"
    /\ pending[1].idx = 2
    /\ Len(conversation) = ResponsePos + 1
    /\ conversation[Len(conversation)].role = "tool"

\* The nearest assistant message before position i (0: none).
PrevAssistant(conv, i) ==
    CHOOSE a \in 0..(i - 1) :
        /\ a # 0 => conv[a].role = "assistant"
        /\ \A j \in (a + 1)..(i - 1) : conv[j].role # "assistant"
        /\ a = 0 => \A j \in 1..(i - 1) : conv[j].role # "assistant"

\* The tool message at i matches exactly one not-yet-answered invocation of the
\* nearest preceding assistant message.
MatchesOneUnanswered(conv, i) ==
    LET a == PrevAssistant(conv, i) IN
    /\ a # 0
    /\ LET calls == conv[a].tool_calls
           same == {j \in 1..Len(calls) : calls[j].id = conv[i].tool_call_id}
           answers == {j \in (a + 1)..(i - 1) :
                          conv[j].role = "tool" /\ conv[j].tool_call_id = conv[i].tool_call_id}
       IN Cardinality(same) - Cardinality(answers) = 1

DistinctIds(calls) ==
    \A j, k \in 1..Len(calls) : calls[j].id = calls[k].id => j = k

\* C5 as claimed: in every history run passes to the model or returns, for any
\* model output and any prior messages, each tool message matches exactly one
\* not-yet-answered invocation of the nearest preceding assistant message.
C5_EveryToolMessageMatches ==
    pc \in {"awaiting_model", "returned"}
    => \A i \in 1..Len(conversation) :
           conversation[i].role = "tool" => MatchesOneUnanswered(conversation, i)

\* C5 as amended: in every history run passes to the model or returns, the k-th
\* tool message run appended after an assistant message carries the identifier
\* and tool name of that message's k-th invocation; so it matches exactly one
\* not-yet-answered invocation whenever that message's identifiers are pairwise
\* distinct, and the whole history has the property when moreover the prior
\* messages had it.
C5_OwnToolMessagesMatch ==
    pc \in {"awaiting_model", "returned"}
    => /\ \A i \in OwnIndices :
              conversation[i].role = "tool"
              => LET a == PrevAssistant(conversation, i) IN
                 /\ a > seeded
                 /\ i - a <= Len(conversation[a].tool_calls)
                 /\ conversation[i].tool_call_id = conversation[a].tool_calls[i - a].id
                 /\ conversation[i].name = conversation[a].tool_calls[i - a].function.name
                 /\ DistinctIds(conversation[a].tool_calls)
                        => MatchesOneUnanswered(conversation, i)
       /\ ( /\ \A i \in 1..seeded :
                   conversation[i].role = "tool" => MatchesOneUnanswered(conversation, i)
            /\ \A i \in OwnIndices : DistinctIds(conversation[i].tool_calls) )
          => \A i \in 1..Len(conversation) :
                 conversation[i].role = "tool" => MatchesOneUnanswered(conversation, i)

C5_Witness ==
    /\ pc = "awaiting_model"
    /\ seeded = 5
    /\ Len(conversation) = seeded + 3
    /\ conversation[4].role = "tool"
    /\ conversation[seeded + 1].role = "assistant"
    /\ DistinctIds(conversation[seeded + 1].tool_calls)
    /\ conversation[seeded + 3].tool_call_id = "call_b"

----------------------------------------------------------------------------
(* Properties of the ToolRegistry (SpecRegistry) *)

\* C6: after any register / remove / clear the registry holds at most one Tool
\* per name, get(name) succeeds exactly for the names with a registered Tool and
\* returns that very Tool; registering a Tool whose name is present fails with
\* the duplicate-name ToolError and leaves the registry as it was.
C6_RegistryUniqueNames ==
    /\ \A i, j \in 1..Len(tools) : tools[i].name = tools[j].name => i = j
    /\ \A n \in ToolNames :
          LET g == RegistryGet(tools, n) IN
          IF registered[n] = 0 THEN ~g.ok
          ELSE g.ok /\ g.tool.id = registered[n] /\ g.tool.name = n
    /\ (lastOp.op = "register" /\ lastOp.input.kind \in {"tool", "decorated"}
            /\ has(lastOp.pre, lastOp.input.tool.name))
       => /\ ~lastOp.ok
          /\ lastOp.res.exc.cls = "ToolError"
          /\ lastOp.res.exc.msg = "Tool '" \o lastOp.input.tool.name \o "' already registered"
          /\ tools = lastOp.pre
          /\ Len(tools) = Len(lastOp.pre)
          /\ RegistryGet(tools, lastOp.input.tool.name)
                 = RegistryGet(lastOp.pre, lastOp.input.tool.name)
    /\ (lastOp.op = "register" /\ lastOp.ok)
       => RegistryGet(tools, lastOp.input.tool.name).tool = lastOp.input.tool

C6_Witness ==
    /\ lastOp.op = "register"
    /\ ~lastOp.ok
    /\ lastOp.input.kind = "tool"
    /\ lastOp.input.tool = MkTool(2, "search", "search_v2")
    /\ registered["search"] = 1
    /\ Len(tools) = 2

\* C7: execute(name, **kwargs) for a registered name whose Tool has an executor
\* invokes that executor, and no other, exactly once with exactly the given
\* keyword arguments, and returns its result, awaited when awaitable.
C7_ExecuteReachesBoundExecutor ==
    (lastOp.op = "execute" /\ has(lastOp.pre, lastOp.name)
        /\ RegistryGet(lastOp.pre, lastOp.name).tool.executor # None)
    => /\ lastOp.invoked =
              << [executor |-> RegistryGet(lastOp.pre, lastOp.name).tool.executor,
                  kwargs |-> lastOp.kwargs] >>
       /\ lastOp.outcome.kind = "return"
              => lastOp.result =
                     Return(IF lastOp.outcome.value.type = "coroutine"
                            THEN lastOp.outcome.value.inner ELSE lastOp.outcome.value)
       /\ lastOp.outcome.kind = "raise" => lastOp.result = lastOp.outcome

----------------------------------------------------------------------------
(* Properties of RestrictedSandbox.execute (SpecSandbox) *)

TimedOutError == "Execution timed out after " \o ToString(Timeout) \o "s"

\* C8: execute on code that never returns within the deadline (it waits for
\* ever, or loops without suspending) has returned to its caller once the
\* deadline and the overhead have passed: a failure result with the timed-out
\* error, holding the output captured before the deadline.
C8_TimeoutAlwaysReturns ==
    \A e \in Execs :
        (sb[e].pc # "idle" /\ NeverReturns(sb[e].code)
            /\ now > sb[e].started + Timeout + Overhead)
        => /\ sb[e].pc = "returned"
           /\ sb[e].returned_at <= sb[e].started + Timeout + Overhead
           /\ ~sb[e].result.success
           /\ sb[e].result.error = TimedOutError
           /\ sb[e].result.stdout = out_buf[e]
           /\ sb[e].result.stderr = err_buf[e]

\* C9: a fault raised by the code, or by a tool it calls, never leaves execute:
\* execute has returned a result with success = false, the error
\* "<category>: <message>" of that fault, and no return value.
C9_FaultsBecomeResults ==
    \A e \in Execs :
        sb[e].fault # NoFault
        => /\ sb[e].pc = "returned"
           /\ ~sb[e].result.success
           /\ sb[e].result.error = sb[e].fault.cls \o ": " \o sb[e].fault.msg
           /\ sb[e].result.return_value = NoneVal

\* C10: when execute has ended (by a result or by an exception escaping), it
\* left sys.stdout and sys.stderr as they were when it was called, and the
\* returned stdout / stderr hold everything its code wrote while it ran.
C10_StreamsRestoredOutputComplete ==
    \A e \in Execs :
        /\ sb[e].pc \in {"returned", "propagated"}
           => /\ sb[e].exit_stdout = sb[e].old_stdout
              /\ sb[e].exit_stderr = sb[e].old_stderr
        /\ sb[e].pc = "returned"
           => /\ sb[e].result.stdout = sb[e].wrote_out
              /\ sb[e].result.stderr = sb[e].wrote_err

\* C11: the capture of an execution is its own, also when execute calls overlap:
\* each returned result holds exactly what its own code wrote, and once no
\* call is in progress sys.stdout and sys.stderr are the streams that were in
\* effect before any call began.
C11_ExecutionContextExclusive ==
    /\ \A e \in Execs :
           sb[e].pc = "returned"
           => /\ sb[e].result.stdout = sb[e].wrote_out
              /\ sb[e].result.stderr = sb[e].wrote_err
    /\ (\A e \in Execs : sb[e].pc \in {"idle", "returned", "propagated"})
       => /\ sys_stdout = 0
          /\ sys_stderr = 0

\* C12: execute on code that ast.parse rejects has returned at once with the
\* failure result "Syntax error: ...", and had no side effect: no statement of
\* the code ran, nothing was captured or written, and sys.stdout / sys.stderr
\* were never bound to its capture.
C12_SyntaxErrorNoSideEffects ==
    \A e \in Execs :
        (sb[e].pc # "idle" /\ ~Codes[sb[e].code].valid)
        => /\ sb[e].pc = "returned"
           /\ sb[e].returned_at = sb[e].started
           /\ sb[e].result =
                  ExecutionResult(FALSE, <<>>, <<>>, NoneVal, "Syntax error: invalid syntax")
           /\ sb[e].ip = 0
           /\ sb[e].wrote_out = <<>> /\ sb[e].wrote_err = <<>>
           /\ out_buf[e] = <<>> /\ err_buf[e] = <<>>
           /\ sys_stdout # e /\ sys_stderr # e
           /\ sb[e].exit_stdout = sb[e].old_stdout
           /\ sb[e].exit_stderr = sb[e].old_stderr

\* C12 witness: a call with invalid code has returned while another call, made
\* before it, is still suspended with the streams bound to its capture.
C12_Witness ==
    \E e, f \in Execs :
        /\ e # f
        /\ sb[e].pc = "returned" /\ ~Codes[sb[e].code].valid
        /\ sb[f].pc = "suspended" /\ sys_stdout = f
        /\ sb[e].old_stdout = f

\* The faults a tool's own executor may raise.
ExecutorFaults == {o.exc : o \in {x \in ExecOutcomes : x.kind = "raise"}}

\* The codes that call get_weather for "tokyo" and print what it returned.
WeatherCodes == {"weather", "weather_kw"}

\* C13: code that awaits the injected tool get_weather with its declared
\* argument and prints the result, as `r = await get_weather("tokyo"); print(r)`
\* does, reaches that tool's executor with city = "tokyo": unless the deadline
\* passed or the executor itself raised, execute has returned a success result
\* whose stdout contains the value the executor returned.
C13_InjectedToolReachesExecutor ==
    \A e \in Execs :
        (/\ sb[e].code \in WeatherCodes
         /\ sb[e].pc \in {"returned", "propagated"}
         /\ sb[e].cause # "deadline"
         /\ sb[e].fault \notin ExecutorFaults)
        => /\ sb[e].pc = "returned"
           /\ sb[e].result.success
           /\ sb[e].invoked = << [executor |-> "weather_fn",
                                  kwargs |-> {<<"city", "tokyo">>}] >>
           /\ \E i \in 1..Len(sb[e].result.stdout) :
                  sb[e].result.stdout[i] = sb[e].r.repr

----------------------------------------------------------------------------
(* Properties of the sandboxes' results and of execute_code (SpecExecuteCode) *)

\* An ExecutionResult as the data model promises it: a failure carries a
\* non-empty error, and stdout / stderr are text, never absent.
WellFormedResult(r) ==
    /\ ~r.success => (r.error # None /\ r.error # "")
    /\ r.stdout \in Seq(STRING)
    /\ r.stderr \in Seq(STRING)

\* C14: every ExecutionResult that E2BSandbox.execute or
\* RestrictedSandbox.execute has returned is well formed: success = false
\* comes with a non-empty error, and stdout and stderr are strings.
C14_ResultsWellFormed ==
    /\ (xc.impl = "e2b" /\ xc.has_result) => WellFormedResult(xc.result)
    /\ \A e \in Execs : sb[e].pc = "returned" => WellFormedResult(sb[e].result)

\* C14 witness: E2BSandbox.execute has returned the failure result it builds
\* when the remote code failed, with the captured streams.
C14_Witness ==
    /\ xc.impl = "e2b"
    /\ xc.has_result
    /\ ~xc.result.success
    /\ xc.result.stdout = <<"a", "\n", "b">>
    /\ xc.result.error = "ZeroDivisionError: division by zero"

\* C15: once an execute_code invocation (or a direct E2BSandbox.execute) has
\* ended, by a return or by an exception, every remote instance provisioned
\* for it has been closed exactly once and none is open; no instance is ever
\* closed twice.
C15_ContextsReleasedOnce ==
    /\ \A i \in 1..Len(contexts) : contexts[i].closes <= 1
    /\ xc.pc \in {"returned", "raised"}
       => \A i \in 1..Len(contexts) : contexts[i].closes = 1 /\ ~contexts[i].open

\* C15 witness: an exception left execute inside the `async with` scope of an
\* execute_code invocation, and the instance provisioned on entry is closed.
C15_Witness ==
    /\ xc.mode = "execute_code"
    /\ xc.pc = "raised"
    /\ xc.escaping.cls = "KeyboardInterrupt"
    /\ Len(contexts) = 1
    /\ contexts[1].closes = 1

\* C16: the tools an execute_code invocation hands to the sandbox are exactly
\* the registry's tools at that moment, in order, without execute_code; in the
\* RestrictedSandbox the name execute_code is unbound and the executor of
\* execute_code is never reached from the code, and the E2B wrapper code
\* defines no execute_code.
C16_ExecuteCodeNotInjected ==
    (xc.mode = "execute_code" /\ xc.pc # "idle")
    => /\ \A t \in {xc.registry[i] : i \in 1..Len(xc.registry)} :
              t.name # "execute_code"
              <=> t \in {xc.injected[i] : i \in 1..Len(xc.injected)}
       /\ \A i, j \in 1..Len(xc.injected) :
              i < j => \E k, l \in 1..Len(xc.registry) :
                          /\ k < l
                          /\ xc.registry[k] = xc.injected[i]
                          /\ xc.registry[l] = xc.injected[j]
       /\ (sb[1].pc # "idle" /\ Codes[sb[1].code].valid)
          => /\ sb[1].injected = xc.injected
             /\ "execute_code" \notin DOMAIN build_namespace(sb[1].injected)
             /\ \A i \in 1..Len(sb[1].invoked) :
                    sb[1].invoked[i].executor # "ExecuteCodeTool.execute"
       /\ \A i \in 1..Len(xc.ran.wrappers) : xc.ran.wrappers[i] # "execute_code"

\* C16 witness: generated code called execute_code(code=...) inside an
\* execute_code invocation and got a NameError; the invocation has ended.
C16_Witness ==
    /\ xc.mode = "execute_code"
    /\ xc.pc = "raised"
    /\ Len(xc.injected) = 2
    /\ sb[1].code = "nested"
    /\ sb[1].fault.cls = "NameError"

\* C17: on a successful sandbox result execute_code returns the trimmed stdout
\* when that is not empty, else the stringified return value when there is a
\* non-empty one, else "(no output)"; it never returns the empty string.
C17_OutputFallbacks ==
    (/\ xc.mode = "execute_code"
     /\ xc.pc \in {"returned", "raised"}
     /\ xc.has_result
     /\ xc.result.success)
    => /\ xc.pc = "returned"
       /\ xc.outcome.kind = "return"
       /\ LET out == xc.outcome.value.repr
              trimmed == Text(Strip(xc.result.stdout))
              rv == xc.result.return_value
          IN /\ out # ""
             /\ trimmed # "" => out = trimmed
             /\ (trimmed = "" /\ rv # NoneVal /\ rv.repr # "") => out = rv.repr
             /\ (trimmed = "" /\ (rv = NoneVal \/ rv.repr = "")) => out = "(no output)"

\* C17 witness: stdout held only whitespace and there was a return value, and
\* execute_code returned that value's text.
C17_Witness ==
    /\ xc.mode = "execute_code"
    /\ xc.pc = "returned"
    /\ xc.result.stdout = <<" ">>
    /\ xc.outcome = Return(Val("str", "{'a': 1}"))

----------------------------------------------------------------------------
(* Properties of error handling in Agent.run and Tool.execute *)

\* C18: no error that comes from a model-chosen action (a bad tool name, bad
\* code, a tool fault, an argument string that does not decode to an argument
\* object) makes run raise: run raises only when the model backend failed or
\* the run was cancelled, and every requested call that run has finished
\* handling is answered by a tool-role message carrying its id.
C18_ModelActionErrorsRecoverable ==
    /\ pc = "raised" => raised \in DidNotReturn
    /\ \A k \in 1..Len(finished) :
           LET f == finished[k] IN
           ~(f.result.kind = "raise" /\ f.result.exc.base)
           => /\ f.pos <= Len(conversation)
              /\ conversation[f.pos].role = "tool"
              /\ conversation[f.pos].tool_call_id = f.tool_call.id

\* C19: a call dispatched to a registered Tool that has no bound executor makes
\* run fail with that configuration error; it is not turned into a tool
\* message after which the loop goes on.
C19_MissingExecutorIsFatal ==
    \A k \in 1..Len(finished) :
        LET f == finished[k]
            name == f.tool_call.function.name
        IN (has(tools, name) /\ RegistryGet(tools, name).tool.executor = None)
           => f.then = "raised"

\* The exception classes of the library's ToolError kind (core/exceptions.py).
ToolErrorKind == {"ToolError"}

\* C20: executing a registered Tool that has no bound executor fails with an
\* error of the ToolError kind, and no executor is invoked.
C20_NoExecutorIsToolError ==
    (/\ lastOp.op = "execute"
     /\ has(lastOp.pre, lastOp.name)
     /\ RegistryGet(lastOp.pre, lastOp.name).tool.executor = None
     /\ Keys(lastOp.kwargs) \cap {"name", "self"} = {})
    => /\ lastOp.invoked = <<>>
       /\ lastOp.result.kind = "raise"
       /\ lastOp.result.exc.cls \in ToolErrorKind

----------------------------------------------------------------------------
(* Properties of Tool (SpecRegistry) *)

\* The executor a Tool object was first given: the one it was built with, or,
\* for a Tool built without one, the first that set_executor gave it.
FirstBound(id) ==
    LET built == CHOOSE t \in ToolObjects : t.id = id IN
    IF built.executor # None THEN built.executor
    ELSE IF bound[id] # <<>> THEN bound[id][1]
    ELSE None

\* C21: a Tool's executor is bound once and does not change afterwards: every
\* execute that reaches an executor reaches the one its Tool object was first
\* given, whatever set_executor calls came later.
C21_ExecutorBoundOnce ==
    (lastOp.op = "execute" /\ lastOp.invoked # <<>>) =>
        LET t == RegistryGet(lastOp.pre, lastOp.name).tool IN
        lastOp.invoked[1].executor = FirstBound(t.id)

\* The ToolError that get raises for a name that is not registered in `ts`
NotFoundError(ts, name) ==
    Exc("ToolError",
        "Tool '" \o name \o "' not found. Available: " \o Join(get_names(ts), ", "),
        FALSE)

\* C22: get(name) and execute(name, ...) for a name that is not registered fail
\* with the not-found ToolError whose message lists exactly the names registered
\* at that moment, invoke no executor and leave the registry as it was.
C22_UnknownNameIsNotFound ==
    /\ (lastOp.op = "get" /\ ~has(lastOp.pre, lastOp.name))
       => /\ ~lastOp.ok
          /\ lastOp.res.exc = NotFoundError(lastOp.pre, lastOp.name)
          /\ tools = lastOp.pre
    /\ (lastOp.op = "execute" /\ ~has(lastOp.pre, lastOp.name))
       => /\ lastOp.result.kind = "raise"
          /\ lastOp.result.exc = NotFoundError(lastOp.pre, lastOp.name)
          /\ lastOp.invoked = <<>>
          /\ tools = lastOp.pre

RECURSIVE SumOf(_, _)
\* The sum of field `f` over a sequence of Usage records
SumOf(us, f) == IF us = <<>> THEN 0 ELSE us[1][f] + SumOf(Tail(us), f)

\* The tool-role messages run has appended, in order
ToolMessagesAppended ==
    SelectSeq(SubSeq(conversation, seeded + 1, Len(conversation)),
              LAMBDA m : m.role = "tool")

\* C23: when run returns, the token counts are the sums of what the model
\* requests reported; tool_calls_made = tool_calls + ptc_executions = the number
\* of tool messages appended; the calls counted as code executions are exactly
\* those named execute_code; and ptc_used holds exactly when there was one.
C23_UsageAccumulation ==
    pc = "returned" =>
        /\ total_usage.input_tokens = SumOf(usage_log, "input_tokens")
        /\ total_usage.output_tokens = SumOf(usage_log, "output_tokens")
        /\ total_usage.total_tokens = SumOf(usage_log, "total_tokens")
        /\ Len(usage_log) = model_requests
        /\ tool_calls_made = total_usage.tool_calls + total_usage.ptc_executions
        /\ tool_calls_made = Len(ToolMessagesAppended)
        /\ total_usage.ptc_executions =
               Len(SelectSeq(ToolMessagesAppended, LAMBDA m : m.name = "execute_code"))
        /\ total_usage.tool_calls =
               Len(SelectSeq(ToolMessagesAppended, LAMBDA m : m.name # "execute_code"))
        /\ ptc_used <=> total_usage.ptc_executions >= 1

C23_Witness ==
    /\ pc = "returned"
    /\ Len(usage_log) = 2
    /\ total_usage.input_tokens > 0
    /\ total_usage.ptc_executions = 1
    /\ total_usage.tool_calls = 1
    /\ tool_calls_made = 2

\* A system message that run synthesized (those a caller supplies read otherwise)
IsSynthesized(m) ==
    /\ m.role = "system"
    /\ m.content = build_system_prompt(
           SelectSeq(tools, LAMBDA t : t.name # "execute_code"), None)

\* C24: seeding. The user's prompt comes last; before it stands the supplied
\* history, with exactly one synthesized system message at its head when the
\* supplied history holds no system message, and with none added when it holds
\* one anywhere. The synthesized message lists the registered tools other than
\* execute_code.
C24_SeedingOneSystemMessage ==
    seeded > 0 =>
        LET body == SubSeq(conversation, 1, seeded - 1)
            synthesized == SelectSeq(body, IsSynthesized)
            supplied == SelectSeq(body, LAMBDA m : ~IsSynthesized(m))
        IN /\ conversation[seeded] =
                  Message("user", "What is the weather in Tokyo?", <<>>, None, None)
           /\ supplied \in PriorHistories
           /\ IF \E i \in 1..Len(supplied) : supplied[i].role = "system"
              THEN synthesized = <<>>
              ELSE Len(synthesized) = 1 /\ IsSynthesized(body[1])

----------------------------------------------------------------------------
(* Properties of the sandbox namespace (SpecSandbox) *)

\* C25: executions are repeatable. When the same code is run with the same
\* tools twice, the second after the first has ended, and the tools behaved the
\* same way both times, both runs give the same stdout and return value:
\* nothing the first did is observable by the second.
C25_ExecutionsRepeatable ==
    \A e, f \in Execs :
        ( /\ f \in sb[e].ended_before
          /\ sb[e].pc = "returned" /\ sb[f].pc = "returned"
          /\ sb[e].code = sb[f].code
          /\ sb[e].injected = sb[f].injected
          /\ sb[e].r = sb[f].r
          /\ sb[e].cause = sb[f].cause
          /\ sb[e].fault = sb[f].fault )
        => /\ sb[e].result.stdout = sb[f].result.stdout
           /\ sb[e].result.return_value = sb[f].result.return_value

\* C26: the names sandboxed code resolves are the built-ins that
\* _build_namespace enumerates and the injected tools, nothing else: no
\* filesystem, process or import primitive is reached, and a call of a name
\* that is neither ends in a NameError.
C26_OnlyEnumeratedNamesResolve ==
    \A e \in Execs :
        LET injected == {sb[e].injected[i].name : i \in 1..Len(sb[e].injected)}
            body == Codes[sb[e].code].body
        IN /\ sb[e].resolved \subseteq BuiltinNames \cup injected
           /\ \A i \in 1..Len(body) :
                 ( /\ body[i].op = "call"
                   /\ body[i].arg.fn \notin BuiltinNames \cup injected
                   /\ sb[e].pc = "returned"
                   /\ sb[e].ip >= i )
                 => /\ sb[e].ip = i
                    /\ sb[e].fault.cls = "NameError"

----------------------------------------------------------------------------
(* Properties of tool calls across the sandboxes (SpecExecuteCode) *)

\* The host executors the sandbox of this invocation has invoked
HostInvoked == IF xc.impl = "restricted" THEN sb[1].invoked ELSE xc.invoked

\* C27: both sandboxes honor the same tool-call contract. When code that calls
\* the injected tool get_weather(city="tokyo") ends with a result, either the
\* host executor was invoked exactly once with those keyword arguments, or the
\* result is flagged as a failure: never a success built without the executor.
C27_SandboxesHonorToolCalls ==
    ( /\ xc.impl \in {"e2b", "restricted"}
      /\ xc.pc \in {"returned", "raised"}
      /\ xc.has_result
      /\ xc.code = "weather_kw"
      /\ \E i \in 1..Len(xc.injected) : xc.injected[i].name = "get_weather" )
    => \/ ~xc.result.success
       \/ HostInvoked = << [executor |-> "weather_fn",
                            kwargs |-> {<<"city", "tokyo">>}] >>

----------------------------------------------------------------------------
(* The description of execute_code (SpecAgent) *)

\* codegen/prompts.py EXECUTE_CODE_DESCRIPTION: a fixed text (its first line)
EXECUTE_CODE_DESCRIPTION == "Execute Python code that orchestrates multiple tools."

\* codegen/executor.py get_tool: the description of the execute_code Tool, as
\* the fixed text and the tool signatures rendered after it. get_tool builds the
\* Tool once, with the fixed text alone, whatever `ts` the registry holds.
ExecuteCodeDescription(ts) == [base |-> EXECUTE_CODE_DESCRIPTION, listed |-> <<>>]

\* The signatures of the tools of `ts` other than execute_code, in order
OtherSignatures(ts) ==
    LET others == SelectSeq(ts, LAMBDA t : t.name # "execute_code")
    IN [i \in 1..Len(others) |-> get_signature(others[i])]

\* C28: at every model request the description of the registered execute_code
\* tool lists the signature of every other tool registered at that moment, and
\* of no other tool.
C28_DescriptionListsOtherTools ==
    (pc = "awaiting_model" /\ has(tools, "execute_code"))
        => ExecuteCodeDescription(tools).listed = OtherSignatures(tools)

----------------------------------------------------------------------------
(* get_sandbox (SpecExecuteCode) *)

\* C29: when the sandbox type in force is "e2b" and the E2B package is not
\* installed, get_sandbox falls back to the RestrictedSandbox: execute_code gets
\* a usable sandbox and goes on to run the code instead of raising.
C29_E2BFallsBackToRestricted ==
    LET req == xc.requested
        stype == IF req.sandbox_type = None THEN req.settings_type
                 ELSE req.sandbox_type
    IN (xc.mode = "execute_code" /\ stype = "e2b" /\ ~req.e2b_available)
           => xc.impl = "restricted"

----------------------------------------------------------------------------
(* The timed-out report of RestrictedSandbox.execute (SpecSandbox) *)

\* C30: execute reports "Execution timed out after <timeout>s" only when its
\* own deadline expired. A timeout-type exception that the code or a tool raised
\* is reported under its own category and message, and a run that ended before
\* the deadline is never reported as timed out.
C30_TimedOutOnlyOnDeadline ==
    \A e \in Execs :
        sb[e].pc = "returned" =>
            /\ sb[e].result.error = TimedOutError => sb[e].cause = "deadline"
            /\ (sb[e].cause = "fault" /\ sb[e].fault.cls = "TimeoutError")
                   => sb[e].result.error = "TimeoutError: " \o sb[e].fault.msg
            /\ sb[e].returned_at < sb[e].started + Timeout
                   => sb[e].result.error # TimedOutError

====
